---------------------------- MODULE Spec2Model ----------------------------
(***************************************************************************)
(* Funnel stage classification of GA4 events (src/stage_classifier.py),    *)
(* the pattern lookups of src/config.py, the conversion aggregates of      *)
(* src/conversion_calculator.py, the pattern analyses of                   *)
(* src/pattern_analyzer.py and the session-based source aggregates of      *)
(* src/conversion_analyzer.py and src/simple_funnel_analyzer.py.           *)
(*                                                                         *)
(* A DataFrame is a sequence of rows; a row is a record of its columns.    *)
(* Inside the classifier every row also carries `name`, its index label    *)
(* (pandas: row.name).  Python strings that the code searches or matches   *)
(* by prefix (page paths, sources, patterns) are sequences of characters;  *)
(* strings that are only compared for equality are TLA+ strings.           *)
(* Confidences are IEEE doubles in the code; here they are integers in     *)
(* hundredths, and FAdd reproduces the roundings of double addition.       *)
(* Conversion rates are kept to three decimals: x percent is x * 1000.     *)
(* An operation that can raise hands back Returns(value) or the exception. *)
(***************************************************************************)
EXTENDS Integers, Sequences, FiniteSets, TLC

VARIABLES
    events_df,      \* the caller's event frame (RangeIndex: label = position - 1)
    loaded,         \* number of rows the loader has appended to the frame
    result_df,      \* the frame returned by the last classify_user_events call
    first_df,       \* the frame returned by the first call
    calls,          \* number of classify_user_events calls made on events_df
    unstable_sort,  \* whether this build's quicksort swaps rows with equal keys
    report,         \* the aggregates computed from result_df so far, by operation
    call,           \* a call of one of the pure helpers: its name and arguments
    ret             \* what that call returned, <<>> while it has not run

vars == <<events_df, loaded, result_df, first_df, calls, unstable_sort,
          report, call, ret>>

---------------------------------------------------------------------------
(* Bounds of the model *)

\* rows the loader appends to the frame a run starts from
MaxEvents == 1
\* event timestamps are 1..MaxTime
MaxTime == 3
\* classify_user_events calls on one frame
MaxCalls == 2

---------------------------------------------------------------------------
(* Python strings as character sequences *)

\* str.startswith
startswith(s, prefix) ==
    /\ Len(prefix) <= Len(s)
    /\ \A i \in 1..Len(prefix) : s[i] = prefix[i]

\* str.endswith
endswith(s, suffix) ==
    /\ Len(suffix) <= Len(s)
    /\ \A i \in 1..Len(suffix) : s[Len(s) - Len(suffix) + i] = suffix[i]

\* `sub in s` for strings
contains(s, sub) ==
    \E k \in 0..(Len(s) - Len(sub)) :
        \A i \in 1..Len(sub) : s[k + i] = sub[i]

\* the characters of the model's strings in code point order
code_points == <<
    " ", "(", ")", "*", "-", "/", "0", "1", "2", "3", "4", "5", "6",
    "7", "8", "9", "a", "b", "c", "d", "e", "f", "g", "h", "i", "j",
    "k", "l", "m", "n", "o", "p", "q", "r", "s", "t", "u", "v", "w",
    "x", "y", "z" >>

\* ord
ord(c) == CHOOSE i \in 1..Len(code_points) : code_points[i] = c

\* a < b for strings
RECURSIVE str_lt(_, _)
str_lt(a, b) ==
    IF b = <<>> THEN FALSE
    ELSE IF a = <<>> THEN TRUE
    ELSE IF a[1] = b[1] THEN str_lt(Tail(a), Tail(b))
    ELSE ord(a[1]) < ord(b[1])

\* the elements of S in ascending order of lt
in_order(S, lt(_, _)) ==
    LET RECURSIVE from(_)
        from(T) ==
            IF T = {} THEN <<>>
            ELSE LET least == CHOOSE x \in T : \A y \in T \ {x} : lt(x, y)
                 IN <<least>> \o from(T \ {least})
    IN from(S)

\* the conversion event name '회원가입2' (romanised: the module is ASCII)
conversion_event_name == "hoewongaip2"

\* an optional numeric cell is <<v>>, or <<>> when it is NaN
NaN == <<>>

---------------------------------------------------------------------------
(* src/config.py *)

\* page_categories of the default configuration, in dict (insertion) order
page_categories == <<
    [category |-> "homepage", patterns |-> << <<"/">> >>],
    [category |-> "authentication",
     patterns |-> << <<"/","l","o","g","i","n">>, <<"/","i","d","-","l","o","g","i","n">>, <<"/","p","r","o","v","i","d","e","r","-","j","o","i","n">> >>],
    [category |-> "content",
     patterns |-> << <<"/","p","o","s","t","s","/","*">>, <<"/","s","k","i","l","l","-","g","u","i","d","e","/","*">>, <<"/","p","-","p","o","s","t","s","/","*">> >>],
    [category |-> "service_info",
     patterns |-> << <<"/","f","e","e","-","i","n","f","o","r","m","a","t","i","o","n">>, <<"/","p","r","o","v","i","d","e","r","s">>, <<"/","s","e","r","v","i","c","e","-","p","l","a","n","/","*">> >>],
    [category |-> "core_features",
     patterns |-> << <<"/","o","r","d","e","r","/","*">>, <<"/","p","r","o","d","u","c","t","s","/","*">>, <<"/","d","i","s","t","r","i","b","u","t","i","o","n","/","*">> >>],
    [category |-> "support",
     patterns |-> << <<"/","p","-","p","o","s","t","s","/","q","n","a">>, <<"/","s","k","i","l","l","-","g","u","i","d","e","/","*">> >>] >>

\* analysis.min_engagement_time (seconds)
min_engagement_time == 15

\* the loops that keep looking after a match: the last match wins
RECURSIVE get_page_category_from_last(_, _, _, _)
get_page_category_from_last(table, page_path, c, p) ==
    IF c > Len(table) THEN "other"
    ELSE IF p > Len(table[c].patterns)
    THEN get_page_category_from_last(table, page_path, c + 1, 1)
    ELSE LET pattern == table[c].patterns[p]
             later == get_page_category_from_last(table, page_path, c, p + 1)
             hit == IF endswith(pattern, <<"*">>)
                    THEN startswith(page_path, SubSeq(pattern, 1, Len(pattern) - 1))
                    ELSE page_path = pattern
         IN IF later # "other" THEN later
            ELSE IF hit THEN table[c].category ELSE "other"

\* Config.get_page_category: the categories in dict order, each category's
\* patterns in list order; the first pattern that matches returns its
\* category (prefix match for a pattern ending in '*', equality otherwise)
RECURSIVE get_page_category_from(_, _, _, _)
get_page_category_from(table, page_path, c, p) ==
    IF c > Len(table) THEN "other"
    ELSE IF p > Len(table[c].patterns)
    THEN get_page_category_from(table, page_path, c + 1, 1)
    ELSE LET pattern == table[c].patterns[p] IN
         IF endswith(pattern, <<"*">>)
         THEN LET prefix == SubSeq(pattern, 1, Len(pattern) - 1) IN
              IF startswith(page_path, prefix) THEN table[c].category
              ELSE get_page_category_from(table, page_path, c, p + 1)
         ELSE IF page_path = pattern THEN table[c].category
              ELSE get_page_category_from(table, page_path, c, p + 1)

\* the lookup with the wildcard branch left out: every pattern is compared
\* for equality
get_page_category_exact_only(table, page_path) ==
    LET RECURSIVE from(_, _)
        from(c, p) ==
            IF c > Len(table) THEN "other"
            ELSE IF p > Len(table[c].patterns) THEN from(c + 1, 1)
            ELSE IF page_path = table[c].patterns[p] THEN table[c].category
            ELSE from(c, p + 1)
    IN from(1, 1)

get_page_category(table, page_path) ==
    get_page_category_from(table, page_path, 1, 1)

\* traffic_groups of the default configuration, in dict (insertion) order
traffic_groups == <<
    [group |-> "paid_search",
     patterns |-> << <<"g","o","o","g","l","e","/","c","p","c">>,
                   <<"n","a","v","e","r","/","c","p","c">>,
                   <<"n","a","v","e","r","/","c","p","c","2">> >>],
    [group |-> "organic_search",
     patterns |-> << <<"g","o","o","g","l","e","/","o","r","g","a","n","i","c">>,
                   <<"n","a","v","e","r","/","o","r","g","a","n","i","c">>,
                   <<"d","a","u","m","/","o","r","g","a","n","i","c">> >>],
    [group |-> "social_media",
     patterns |-> << <<"b","l","o","g","/","s","n","s">>,
                   <<"i","n","s","t","a","g","r","a","m","/","*">>,
                   <<"y","o","u","t","u","b","e","/","*">> >>],
    [group |-> "referral",
     patterns |-> << <<"*","r","e","f","e","r","r","a","l">>,
                   <<"b","l","o","g","/","*">> >>],
    [group |-> "direct",
     patterns |-> << <<"(","d","i","r","e","c","t",")","/","(","n","o","n","e",")">>,
                   <<"(","n","o","t"," ","s","e","t",")","/","(","n","o","t"," ","s","e","t",")">> >>],
    [group |-> "email",
     patterns |-> << <<"s","t","i","b","e","e","/","*">> >>] >>

\* the loop that keeps looking after a match: the last match wins
RECURSIVE get_traffic_group_from_last(_, _, _, _)
get_traffic_group_from_last(table, source_medium, g, p) ==
    IF g > Len(table) THEN "other"
    ELSE IF p > Len(table[g].patterns)
    THEN get_traffic_group_from_last(table, source_medium, g + 1, 1)
    ELSE LET pattern == table[g].patterns[p]
             later == get_traffic_group_from_last(table, source_medium, g, p + 1)
             hit == IF endswith(pattern, <<"*">>)
                    THEN startswith(source_medium,
                                    SubSeq(pattern, 1, Len(pattern) - 1))
                    ELSE source_medium = pattern
         IN IF later # "other" THEN later
            ELSE IF hit THEN table[g].group ELSE "other"

\* Config.get_traffic_group: the loops over the groups in dict order and each
\* group's patterns in list order, from pattern p of group g on
RECURSIVE get_traffic_group_from(_, _, _, _)
get_traffic_group_from(table, source_medium, g, p) ==
    IF g > Len(table) THEN "other"
    ELSE IF p > Len(table[g].patterns)
    THEN get_traffic_group_from(table, source_medium, g + 1, 1)
    ELSE LET pattern == table[g].patterns[p] IN
         IF endswith(pattern, <<"*">>)
         THEN LET prefix == SubSeq(pattern, 1, Len(pattern) - 1) IN
              IF startswith(source_medium, prefix) THEN table[g].group
              ELSE get_traffic_group_from(table, source_medium, g, p + 1)
         ELSE IF source_medium = pattern THEN table[g].group
              ELSE get_traffic_group_from(table, source_medium, g, p + 1)

\* source_medium = f"{source}/{medium}"
get_traffic_group(table, source, medium) ==
    get_traffic_group_from(table, source \o <<"/">> \o medium, 1, 1)

---------------------------------------------------------------------------
(* Double arithmetic of the confidences, in hundredths.  n*10 is the double
   nearest to n/10; n*10 + 1 and n*10 - 1 are the doubles one rounding step
   above and below it (61 is 0.6000000000000001, 89 is 0.8999999999999999). *)

\* the additions of two confidences whose double result is not the nearest
\* double of the decimal sum: <<a, b, a + b as computed>>
inexact_sums == {
    <<40, 20, 61>>, <<70, 20, 89>>, <<70, 60, 129>>, <<80, 40, 121>>,
    <<80, 90, 171>>, <<110, 30, 141>>, <<110, 60, 171>>, <<120, 60, 179>>,
    <<121, 30, 151>>, <<129, 20, 149>>, <<160, 30, 191>>, <<171, 20, 191>>,
    <<179, 20, 199>>, <<220, 20, 241>>, <<240, 30, 269>> }

\* confidence += increment
FAdd(a, b) ==
    IF \E e \in inexact_sums : e[1] = a /\ e[2] = b
    THEN (CHOOSE e \in inexact_sums : e[1] = a /\ e[2] = b)[3]
    ELSE a + b

\* min(confidence, 1.0)
min(a, b) == IF b < a THEN b ELSE a

---------------------------------------------------------------------------
(* src/stage_classifier.py *)

\* FunnelStageClassifier._initialize_stage_rules: the rule table in dict order
stage_rules == <<
    [stage |-> "AWARENESS", events |-> {"session_start", "first_visit"},
     priority |-> 1],
    [stage |-> "INTEREST", events |-> {"user_engagement", "visit_blog", "scroll"},
     priority |-> 2],
    [stage |-> "CONSIDERATION", events |-> {"page_view"}, priority |-> 3],
    [stage |-> "CONVERSION", events |-> {conversion_event_name}, priority |-> 4] >>

\* _awareness_conditions: the confidence summed over the signals that fire
_awareness_signals(event, context) ==
    LET c0 == 0
        c1 == IF event.eventName = "session_start" THEN FAdd(c0, 80) ELSE c0
        c2 == IF event.eventName = "first_visit" THEN FAdd(c1, 90) ELSE c1
        c3 == IF event.sessionSource # <<"(","d","i","r","e","c","t",")">> THEN FAdd(c2, 30) ELSE c2
        c4 == IF event.pagePath \in {<<"/">>, <<"/","s","k","i","l","l","-","g","u","i","d","e","/","o","n","e","-","c","l","i","c","k">>}
              THEN FAdd(c3, 40) ELSE c3
        c5 == IF Len(context) > 0 /\ event.name = context[1].name
              THEN FAdd(c4, 30) ELSE c4
    IN c5

\* _awareness_conditions returning the sum without the clamp
_awareness_conditions_unclamped(event, context) ==
    _awareness_signals(event, context)

\* _awareness_conditions: return min(confidence, 1.0)
_awareness_conditions(event, context) ==
    min(_awareness_signals(event, context), 100)

\* _interest_conditions: the confidence summed over the signals that fire
_interest_signals(event, context) ==
    LET c0 == 0
        c1 == IF event.eventName \in {"user_engagement", "visit_blog"}
              THEN FAdd(c0, 70) ELSE c0
        c2 == IF \/ contains(event.pagePath, <<"/","p","o","s","t","s","/">>)
                 \/ contains(event.pagePath, <<"/","s","k","i","l","l","-","g","u","i","d","e","/">>)
              THEN FAdd(c1, 50) ELSE c1
        c3 == IF /\ "engagementTimeMsec" \in DOMAIN event
                 /\ event.engagementTimeMsec # NaN
                 /\ event.engagementTimeMsec[1] > min_engagement_time * 1000
              THEN FAdd(c2, 40) ELSE c2
        c4 == IF event.eventName = "visit_blog" THEN FAdd(c3, 60) ELSE c3
        prior_awareness ==
            \E i \in 1..Len(context) :
                /\ context[i].name < event.name
                /\ context[i].eventName \in {"session_start", "first_visit"}
        c5 == IF prior_awareness THEN FAdd(c4, 20) ELSE c4
    IN c5

\* _interest_conditions without the content-page signal
_interest_conditions_events_only(event, context) ==
    LET c1 == IF event.eventName \in {"user_engagement", "visit_blog"} THEN 70 ELSE 0
        c2 == IF event.eventName = "visit_blog" THEN FAdd(c1, 60) ELSE c1
    IN min(c2, 100)

\* _interest_conditions: return min(confidence, 1.0)
_interest_conditions(event, context) ==
    min(_interest_signals(event, context), 100)

\* _consideration_conditions: the confidence summed over the signals that fire
_consideration_signals(event, context) ==
    LET service_pages == {<<"/","f","e","e","-","i","n","f","o","r","m","a","t","i","o","n">>, <<"/","p","r","o","v","i","d","e","r","s">>, <<"/","s","e","r","v","i","c","e","-","p","l","a","n">>}
        c0 == 0
        c1 == IF \E page \in service_pages : contains(event.pagePath, page)
              THEN FAdd(c0, 80) ELSE c0
        unique_pages == Cardinality({context[i].pagePath : i \in 1..Len(context)})
        c2 == IF unique_pages >= 3 THEN FAdd(c1, 30) ELSE c1
        c3 == IF unique_pages >= 5 THEN FAdd(c2, 20) ELSE c2
        event_position ==
            Cardinality({i \in 1..Len(context) : context[i].name <= event.name})
        c4 == IF event_position >= 3 THEN FAdd(c3, 20) ELSE c3
        prior_interest ==
            \E i \in 1..Len(context) :
                /\ context[i].name < event.name
                /\ context[i].eventName \in {"user_engagement", "visit_blog"}
        c5 == IF prior_interest THEN FAdd(c4, 30) ELSE c4
        c6 == IF event.sessionSource = <<"(","d","i","r","e","c","t",")">> THEN FAdd(c5, 20) ELSE c5
    IN c6

\* _consideration_conditions returning the sum without the clamp
_consideration_conditions_unclamped(event, context) ==
    _consideration_signals(event, context)

\* _consideration_conditions: return min(confidence, 1.0)
_consideration_conditions(event, context) ==
    min(_consideration_signals(event, context), 100)

\* the signals with the signup-page bonus given to any event on the page
_conversion_signals_any_event(event, context) ==
    IF event.eventName = conversion_event_name THEN 100
    ELSE IF event.pagePath = <<"/","p","r","o","v","i","d","e","r","-","j","o","i","n">>
         THEN IF event.eventName = "user_engagement" THEN 50 ELSE 30
         ELSE 0

\* _conversion_conditions: the confidence summed over the signals that fire
_conversion_signals(event, context) ==
    LET c0 == 0
        c1 == IF event.eventName = conversion_event_name THEN 100
              ELSE IF event.pagePath = <<"/","p","r","o","v","i","d","e","r","-","j","o","i","n">>
                   THEN IF event.eventName = "page_view" THEN FAdd(c0, 30)
                        ELSE IF event.eventName = "user_engagement"
                             THEN FAdd(c0, 50) ELSE c0
                   ELSE c0
    IN c1

\* _conversion_conditions: return min(confidence, 1.0)
_conversion_conditions(event, context) ==
    min(_conversion_signals(event, context), 100)

\* stage_config['conditions'](event_row, user_context, stage_config)
conditions(stage, event, context) ==
    CASE stage = "AWARENESS" -> _awareness_conditions(event, context)
      [] stage = "INTEREST" -> _interest_conditions(event, context)
      [] stage = "CONSIDERATION" -> _consideration_conditions(event, context)
      [] stage = "CONVERSION" -> _conversion_conditions(event, context)

\* the loop with `confidence >= max_confidence`: a later stage wins a tie
RECURSIVE _classify_single_event_from_ge(_, _, _, _, _)
_classify_single_event_from_ge(event_row, user_context, k, max_confidence, best_stage) ==
    IF k > Len(stage_rules) THEN <<best_stage, max_confidence>>
    ELSE LET confidence == conditions(stage_rules[k].stage, event_row, user_context)
         IN IF confidence >= max_confidence
            THEN _classify_single_event_from_ge(event_row, user_context, k + 1,
                                                confidence, stage_rules[k].stage)
            ELSE _classify_single_event_from_ge(event_row, user_context, k + 1,
                                                max_confidence, best_stage)

\* _classify_single_event: the loop over the rule table from rule k on, with
\* the best stage and confidence found so far; returns <<stage, confidence>>
RECURSIVE _classify_single_event_from(_, _, _, _, _)
_classify_single_event_from(event_row, user_context, k, max_confidence, best_stage) ==
    IF k > Len(stage_rules) THEN <<best_stage, max_confidence>>
    ELSE LET confidence == conditions(stage_rules[k].stage, event_row, user_context)
         IN IF confidence > max_confidence
            THEN _classify_single_event_from(event_row, user_context, k + 1,
                                             confidence, stage_rules[k].stage)
            ELSE _classify_single_event_from(event_row, user_context, k + 1,
                                             max_confidence, best_stage)

\* the loop result with best_stage never assigned
_classify_single_event_stage_unset(event_row, user_context) ==
    <<"UNKNOWN",
      _classify_single_event_from(event_row, user_context, 1, 0, "UNKNOWN")[2]>>

_classify_single_event(event_row, user_context) ==
    _classify_single_event_from(event_row, user_context, 1, 0, "UNKNOWN")

\* the user's rows left in frame order
sort_values_unsorted(df, unstable) == df

\* DataFrame.sort_values('eventTimestamp'): ascending by timestamp.  The
\* default kind is quicksort, which is not stable: rows with equal timestamps
\* keep their order in one build and swap in another.
sort_values(df, unstable) ==
    LET goes_before(a, b) ==
            \/ a.eventTimestamp < b.eventTimestamp
            \/ a.eventTimestamp = b.eventTimestamp /\ unstable
        RECURSIVE insert(_, _)
        insert(sorted, row) ==
            IF sorted = <<>> THEN <<row>>
            ELSE IF goes_before(row, Head(sorted)) THEN <<row>> \o sorted
            ELSE <<Head(sorted)>> \o insert(Tail(sorted), row)
        RECURSIVE sort(_)
        sort(n) == IF n = 0 THEN <<>> ELSE insert(sort(n - 1), df[n])
    IN sort(Len(df))

\* the iterrows loop of _classify_user_journey from position i on: each row
\* is classified against the frame as it is at that moment, and the result
\* is written into the frame at the row's label
RECURSIVE _classify_rows_from(_, _)
_classify_rows_from(user_events, i) ==
    IF i > Len(user_events) THEN user_events
    ELSE LET r == _classify_single_event(user_events[i], user_events)
         IN _classify_rows_from(
                [user_events EXCEPT ![i].funnel_stage = r[1],
                                    ![i].stage_confidence = r[2]], i + 1)

\* _classify_user_journey
_classify_user_journey(user_events, unstable) ==
    _classify_rows_from(sort_values(user_events, unstable), 1)

\* the user identifiers of the model, in ascending (string) order
UserIds == <<"user1", "user2">>

\* the frame with its RangeIndex made explicit: row i has label i - 1
with_index(df) == [i \in 1..Len(df) |-> [name |-> i - 1] @@ df[i]]

\* the columns of a row without its index label
columns(row) == [f \in (DOMAIN row) \ {"name"} |-> row[f]]

\* DataFrame.copy
copy(df) == df

\* the three column assignments of classify_user_events
add_columns(df, table) ==
    [i \in 1..Len(df) |->
        [funnel_stage |-> "UNKNOWN", stage_confidence |-> 0,
         page_category |-> get_page_category(table, df[i].pagePath)] @@ df[i]]

\* a grouping that puts every row in one group
groupby_user_unsplit(df) == <<df>>

\* events_df.groupby('userPseudoId'): the groups in ascending key order, each
\* with its rows in frame order
groupby_user(df) ==
    LET RECURSIVE groups(_)
        groups(u) ==
            IF u > Len(UserIds) THEN <<>>
            ELSE LET g == SelectSeq(df, LAMBDA r : r.userPseudoId = UserIds[u])
                 IN (IF g = <<>> THEN <<>> ELSE <<g>>) \o groups(u + 1)
    IN groups(1)

\* the result taken from the last user's frame only
concat_last(dfs) ==
    [i \in 1..Len(dfs[Len(dfs)]) |-> columns(dfs[Len(dfs)][i])]

\* pd.concat(classified_dfs, ignore_index=True)
concat(dfs) ==
    LET RECURSIVE cat(_)
        cat(k) == IF k > Len(dfs) THEN <<>> ELSE dfs[k] \o cat(k + 1)
        all == cat(1)
    IN [i \in 1..Len(all) |-> columns(all[i])]

\* classify_user_events without `events_df = events_df.copy()`: the column
\* assignments land in the caller's frame
classify_user_events_in_place(df, table, unstable) ==
    IF df = <<>> THEN [caller |-> df, returned |-> df]
    ELSE LET user_groups == groupby_user(add_columns(with_index(df), table))
             classified_dfs ==
                 [g \in 1..Len(user_groups) |->
                     _classify_user_journey(user_groups[g], unstable)]
         IN [caller |-> add_columns(df, table),
             returned |-> concat(classified_dfs)]

\* classify_user_events.  `caller` is the caller's frame after the call and
\* `returned` the frame the call returns.
classify_user_events(df, table, unstable) ==
    IF df = <<>> THEN [caller |-> df, returned |-> df]
    ELSE LET local == add_columns(with_index(copy(df)), table)
             user_groups == groupby_user(local)
             classified_dfs ==
                 [g \in 1..Len(user_groups) |->
                     _classify_user_journey(user_groups[g], unstable)]
         IN [caller |-> df, returned |-> concat(classified_dfs)]

---------------------------------------------------------------------------
(* src/conversion_calculator.py *)

\* a rate of x percent is the integer x * 1000: rates are kept to three decimals
Pct(x) == x * 1000

\* the tiers tested with > where the code has >=
_assess_traffic_quality_strict(conversion_rate, volume) ==
    IF conversion_rate > Pct(20) /\ volume > 50 THEN "Premium"
    ELSE IF conversion_rate > Pct(10) /\ volume > 100 THEN "High"
    ELSE IF conversion_rate > Pct(5) /\ volume > 200 THEN "Medium"
    ELSE IF conversion_rate > Pct(2) THEN "Low"
    ELSE "Poor"

\* ConversionCalculator._assess_traffic_quality
_assess_traffic_quality(conversion_rate, volume) ==
    IF conversion_rate >= Pct(20) /\ volume >= 50 THEN "Premium"
    ELSE IF conversion_rate >= Pct(10) /\ volume >= 100 THEN "High"
    ELSE IF conversion_rate >= Pct(5) /\ volume >= 200 THEN "Medium"
    ELSE IF conversion_rate >= Pct(2) THEN "Low"
    ELSE "Poor"

\* what an operation hands back: the value it returns, or the exception it
\* raises
Returns(value) == [ok |-> TRUE, value |-> value]

KeyError == [ok |-> FALSE, raised |-> "KeyError"]

ZeroDivisionError == [ok |-> FALSE, raised |-> "ZeroDivisionError"]

\* `column in df.columns`; pd.DataFrame() for no rows has no columns at all
has_column(df, column) == df # <<>> /\ column \in DOMAIN df[1]

\* a / b * 100
percent(a, b) == (a * Pct(100)) \div b

\* the progression with only the user's furthest stage marked as reached
_get_user_progression_highest_only(classified_df) ==
    LET user_groups == groupby_user(classified_df)
    IN [g \in 1..Len(user_groups) |->
           LET user_events == user_groups[g]
               stages == {user_events[i].funnel_stage : i \in 1..Len(user_events)}
               conversion == "CONVERSION" \in stages
               consideration == ~conversion /\ "CONSIDERATION" \in stages
               interest == ~conversion /\ ~consideration /\ "INTEREST" \in stages
           IN [user_id |-> user_events[1].userPseudoId,
               reached_awareness |->
                   ~conversion /\ ~consideration /\ ~interest /\ "AWARENESS" \in stages,
               reached_interest |-> interest,
               reached_consideration |-> consideration,
               reached_conversion |-> conversion,
               total_events |-> Len(user_events),
               unique_pages |->
                   Cardinality({user_events[i].pagePath : i \in 1..Len(user_events)}),
               first_source |-> user_events[1].sessionSource,
               first_medium |-> user_events[1].sessionMedium]]

\* ConversionCalculator._get_user_progression: one record per user, the users
\* in groupby order
_get_user_progression(classified_df) ==
    LET user_groups == groupby_user(classified_df)
    IN [g \in 1..Len(user_groups) |->
           LET user_events == user_groups[g]
               stages == {user_events[i].funnel_stage : i \in 1..Len(user_events)}
           IN [user_id |-> user_events[1].userPseudoId,
               reached_awareness |-> "AWARENESS" \in stages,
               reached_interest |-> "INTEREST" \in stages,
               reached_consideration |-> "CONSIDERATION" \in stages,
               reached_conversion |-> "CONVERSION" \in stages,
               total_events |-> Len(user_events),
               unique_pages |->
                   Cardinality({user_events[i].pagePath : i \in 1..Len(user_events)}),
               first_source |-> user_events[1].sessionSource,
               first_medium |-> user_events[1].sessionMedium]]

\* the step conversion with numerator and denominator exchanged
step_conversion_swapped(later, earlier) ==
    IF later > 0 THEN percent(earlier, later) ELSE 0

\* (later / earlier * 100) if earlier > 0 else 0
step_conversion(later, earlier) ==
    IF earlier > 0 THEN percent(later, earlier) ELSE 0

\* ConversionCalculator.calculate_stage_conversions (its second argument,
\* conversion_events, is not read).  The error text stands for the Korean
\* 'no classified data' message.
calculate_stage_conversions(classified_df) ==
    IF classified_df = <<>> THEN Returns([error |-> "no classified data"])
    ELSE IF ~has_column(classified_df, "sessionMedium") THEN KeyError
    ELSE
    LET user_progression == _get_user_progression(classified_df)
        len(flag) ==
            Cardinality({u \in 1..Len(user_progression) : user_progression[u][flag]})
        stage_counts ==
            [awareness |-> len("reached_awareness"),
             interest |-> len("reached_interest"),
             consideration |-> len("reached_consideration"),
             conversion |-> len("reached_conversion")]
        total_users == Len(user_progression)
    IN Returns(
        [total_users |-> total_users,
         stage_counts |-> stage_counts,
         stage_rates |->
            [awareness_rate |-> percent(stage_counts.awareness, total_users),
             interest_rate |-> percent(stage_counts.interest, total_users),
             consideration_rate |-> percent(stage_counts.consideration, total_users),
             conversion_rate |-> percent(stage_counts.conversion, total_users)],
         step_conversions |->
            [awareness_to_interest |->
                 step_conversion(stage_counts.interest, stage_counts.awareness),
             interest_to_consideration |->
                 step_conversion(stage_counts.consideration, stage_counts.interest),
             consideration_to_conversion |->
                 step_conversion(stage_counts.conversion, stage_counts.consideration)],
         overall_conversion |-> percent(stage_counts.conversion, total_users)])


\* DataFrame.sort_values(column, ascending=False): descending, by the default
\* quicksort, which may keep or swap rows with equal keys
sort_values_descending(df, column, unstable) ==
    LET goes_before(a, b) ==
            \/ a[column] > b[column]
            \/ a[column] = b[column] /\ unstable
        RECURSIVE insert(_, _)
        insert(sorted_rows, row) ==
            IF sorted_rows = <<>> THEN <<row>>
            ELSE IF goes_before(row, Head(sorted_rows)) THEN <<row>> \o sorted_rows
            ELSE <<Head(sorted_rows)>> \o insert(Tail(sorted_rows), row)
        RECURSIVE sort(_)
        sort(n) == IF n = 0 THEN <<>> ELSE insert(sort(n - 1), df[n])
    IN sort(Len(df))

\* ConversionCalculator.calculate_source_conversions.  groupby on a frame
\* without the column raises KeyError; agg 'first' takes the first row of each
\* user in frame order; the (source, medium) groups come in key order.
calculate_source_conversions(classified_df, table, unstable) ==
    IF ~has_column(classified_df, "userPseudoId") THEN KeyError
    ELSE IF ~has_column(classified_df, "sessionMedium") THEN KeyError
    ELSE
    LET user_groups == groupby_user(classified_df)
        user_sources ==
            [g \in 1..Len(user_groups) |->
                [sessionSource |-> user_groups[g][1].sessionSource,
                 sessionMedium |-> user_groups[g][1].sessionMedium,
                 converted |->
                     \E i \in 1..Len(user_groups[g]) :
                         user_groups[g][i].funnel_stage = "CONVERSION"]]
        key_lt(a, b) == str_lt(a[1], b[1]) \/ (a[1] = b[1] /\ str_lt(a[2], b[2]))
        source_groups ==
            in_order({<<user_sources[g].sessionSource, user_sources[g].sessionMedium>> :
                       g \in 1..Len(user_sources)}, key_lt)
        source_conversions ==
            [k \in 1..Len(source_groups) |->
                LET source == source_groups[k][1]
                    medium == source_groups[k][2]
                    group == {g \in 1..Len(user_sources) :
                                 /\ user_sources[g].sessionSource = source
                                 /\ user_sources[g].sessionMedium = medium}
                    total_users == Cardinality(group)
                    conversions ==
                        Cardinality({g \in group : user_sources[g].converted})
                    conversion_rate == percent(conversions, total_users)
                IN [source |-> source,
                    medium |-> medium,
                    source_medium |-> source \o <<" ", "/", " ">> \o medium,
                    traffic_group |-> get_traffic_group(table, source, medium),
                    total_users |-> total_users,
                    conversions |-> conversions,
                    conversion_rate |-> conversion_rate,
                    traffic_quality |->
                        _assess_traffic_quality(conversion_rate, total_users)]]
    IN Returns(sort_values_descending(source_conversions, "conversion_rate", unstable))

\* ConversionCalculator._classify_content_type
_classify_content_type(page_path) ==
    IF contains(page_path, <<"/","p","o","s","t","s","/">>) THEN "Blog Post"
    ELSE IF contains(page_path, <<"/","s","k","i","l","l","-","g","u","i","d","e","/">>)
    THEN IF contains(page_path, <<"o","n","e","-","c","l","i","c","k">>) THEN "Product Guide"
         ELSE IF contains(page_path, <<"m","a","r","k","e","t","-","m","a","n","a","g","e","m","e","n","t">>) THEN "Management Guide"
         ELSE "General Guide"
    ELSE "Other Content"

\* ConversionCalculator._assess_content_effectiveness
_assess_content_effectiveness(conversion_rate, volume) ==
    IF conversion_rate >= Pct(30) /\ volume >= 20 THEN "Excellent"
    ELSE IF conversion_rate >= Pct(15) /\ volume >= 50 THEN "Good"
    ELSE IF conversion_rate >= Pct(8) /\ volume >= 100 THEN "Average"
    ELSE IF conversion_rate >= Pct(3) THEN "Below Average"
    ELSE "Poor"

\* ConversionCalculator.calculate_content_conversions.  avg_interactions, the
\* mean of the per-user interaction counts of a page, is kept to three
\* decimals like the rates.
calculate_content_conversions(classified_df, unstable) ==
    IF ~has_column(classified_df, "pagePath") THEN KeyError
    ELSE
    LET content_events ==
            SelectSeq(classified_df,
                      LAMBDA row : \/ contains(row.pagePath, <<"/","p","o","s","t","s","/">>)
                                   \/ contains(row.pagePath, <<"/","s","k","i","l","l","-","g","u","i","d","e","/">>))
    IN IF content_events = <<>> THEN Returns(<<>>)
       ELSE
       LET converted_users ==
               {classified_df[i].userPseudoId :
                   i \in {j \in 1..Len(classified_df) :
                             classified_df[j].funnel_stage = "CONVERSION"}}
           pages == in_order({content_events[i].pagePath :
                                 i \in 1..Len(content_events)}, str_lt)
           content_conversions ==
               [k \in 1..Len(pages) |->
                   LET page_path == pages[k]
                       visits == {i \in 1..Len(content_events) :
                                     content_events[i].pagePath = page_path}
                       visitors == {content_events[i].userPseudoId : i \in visits}
                       total_users == Cardinality(visitors)
                       conversions == Cardinality(visitors \cap converted_users)
                       conversion_rate ==
                           IF total_users > 0 THEN percent(conversions, total_users)
                           ELSE 0
                   IN [page_path |-> page_path,
                       content_type |-> _classify_content_type(page_path),
                       total_users |-> total_users,
                       conversions |-> conversions,
                       conversion_rate |-> conversion_rate,
                       avg_interactions |->
                           (Cardinality(visits) * 1000) \div total_users,
                       content_effectiveness |->
                           _assess_content_effectiveness(conversion_rate, total_users)]]
       IN Returns(sort_values_descending(content_conversions, "conversion_rate",
                                         unstable))

\* x.mode().iloc[0]: the most frequent of the values, the least of them in
\* sorted order when several are as frequent
mode(values, lt(_, _)) ==
    LET count(v) == Cardinality({i \in 1..Len(values) : values[i] = v})
        modes == {values[i] : i \in {j \in 1..Len(values) :
                     \A k \in 1..Len(values) : count(values[k]) <= count(values[j])}}
    IN CHOOSE v \in modes : \A w \in modes \ {v} : lt(v, w)

\* ConversionCalculator.calculate_device_conversions
calculate_device_conversions(classified_df, unstable) ==
    IF ~has_column(classified_df, "deviceCategory") THEN Returns(<<>>)
    ELSE
    LET user_groups == groupby_user(classified_df)
        user_devices ==
            [g \in 1..Len(user_groups) |->
                [deviceCategory |->
                     mode([i \in 1..Len(user_groups[g]) |->
                              user_groups[g][i].deviceCategory], str_lt),
                 converted |->
                     \E i \in 1..Len(user_groups[g]) :
                         user_groups[g][i].funnel_stage = "CONVERSION"]]
        devices == in_order({user_devices[g].deviceCategory :
                                g \in 1..Len(user_devices)}, str_lt)
        device_conversions ==
            [k \in 1..Len(devices) |->
                LET group == {g \in 1..Len(user_devices) :
                                 user_devices[g].deviceCategory = devices[k]}
                    total_users == Cardinality(group)
                    conversions ==
                        Cardinality({g \in group : user_devices[g].converted})
                IN [device_category |-> devices[k],
                    total_users |-> total_users,
                    conversions |-> conversions,
                    conversion_rate |-> percent(conversions, total_users),
                    user_share |-> percent(total_users, Len(user_devices))]]
    IN Returns(sort_values_descending(device_conversions, "conversion_rate",
                                      unstable))

\* pd.to_datetime(eventTimestamp): the timestamps of the model are moments of
\* Monday 2024-01-01 from 10:00 on, three to the hour
to_datetime(eventTimestamp) ==
    [hour |-> 10 + (eventTimestamp \div 3), day_name |-> "Monday"]

\* the days in the order calculate_time_based_conversions reports them
day_names == <<"Monday", "Tuesday", "Wednesday", "Thursday", "Friday",
               "Saturday", "Sunday">>

\* ConversionCalculator.calculate_time_based_conversions: {} without a
\* timestamp column, else the hours 0..23 and the days that have users
calculate_time_based_conversions(classified_df) ==
    IF ~has_column(classified_df, "eventTimestamp") THEN Returns(<<>>)
    ELSE
    LET user_groups == groupby_user(classified_df)
        sorted_days == <<"Friday", "Monday", "Saturday", "Sunday", "Thursday",
                         "Tuesday", "Wednesday">>
        day_lt(a, b) ==
            \E i, j \in 1..Len(sorted_days) :
                sorted_days[i] = a /\ sorted_days[j] = b /\ i < j
        user_times ==
            [g \in 1..Len(user_groups) |->
                [hour |->
                     mode([i \in 1..Len(user_groups[g]) |->
                              to_datetime(user_groups[g][i].eventTimestamp).hour],
                          LAMBDA a, b : a < b),
                 day_of_week |->
                     mode([i \in 1..Len(user_groups[g]) |->
                              to_datetime(user_groups[g][i].eventTimestamp).day_name],
                          day_lt),
                 converted |->
                     \E i \in 1..Len(user_groups[g]) :
                         user_groups[g][i].funnel_stage = "CONVERSION"]]
        bucket(users) ==
            [total_users |-> Cardinality(users),
             conversions |-> Cardinality({g \in users : user_times[g].converted}),
             conversion_rate |->
                 percent(Cardinality({g \in users : user_times[g].converted}),
                         Cardinality(users))]
        hours == in_order({user_times[g].hour : g \in 1..Len(user_times)},
                          LAMBDA a, b : a < b)
        days == SelectSeq(day_names,
                          LAMBDA day : \E g \in 1..Len(user_times) :
                                           user_times[g].day_of_week = day)
    IN Returns(
        [hourly_conversions |->
             [k \in 1..Len(hours) |->
                 [hour |-> hours[k]]
                     @@ bucket({g \in 1..Len(user_times) :
                                   user_times[g].hour = hours[k]})],
         daily_conversions |->
             [k \in 1..Len(days) |->
                 [day_of_week |-> days[k]]
                     @@ bucket({g \in 1..Len(user_times) :
                                   user_times[g].day_of_week = days[k]})]])

---------------------------------------------------------------------------
(* src/stage_classifier.py: the analyses of a classified frame *)

\* FunnelStageClassifier._get_highest_stage
_get_highest_stage(stages) ==
    IF "CONVERSION" \in stages THEN "CONVERSION"
    ELSE IF "CONSIDERATION" \in stages THEN "CONSIDERATION"
    ELSE IF "INTEREST" \in stages THEN "INTEREST"
    ELSE IF "AWARENESS" \in stages THEN "AWARENESS"
    ELSE "NONE"

\* FunnelStageClassifier.get_user_funnel_progression: returns progression_df
\* and prints the rates of `printed`.  A frame without rows has no column to
\* group by; with no user at all progression_df has no reached_conversion
\* column to sum.
get_user_funnel_progression(df) ==
    IF ~has_column(df, "userPseudoId") THEN KeyError
    ELSE IF ~has_column(df, "sessionId") THEN KeyError
    ELSE IF ~has_column(df, "sessionMedium") THEN KeyError
    ELSE
    LET user_groups == groupby_user(df)
        progression_df ==
            [g \in 1..Len(user_groups) |->
                LET user_events == user_groups[g]
                    stages_reached ==
                        {user_events[i].funnel_stage : i \in 1..Len(user_events)}
                            \ {"UNKNOWN"}
                IN [user_id |-> user_events[1].userPseudoId,
                    total_events |-> Len(user_events),
                    unique_pages |->
                        Cardinality({user_events[i].pagePath :
                                        i \in 1..Len(user_events)}),
                    sessions |->
                        Cardinality({user_events[i].sessionId :
                                        i \in 1..Len(user_events)}),
                    stages_reached |-> Cardinality(stages_reached),
                    reached_awareness |-> "AWARENESS" \in stages_reached,
                    reached_interest |-> "INTEREST" \in stages_reached,
                    reached_consideration |-> "CONSIDERATION" \in stages_reached,
                    reached_conversion |-> "CONVERSION" \in stages_reached,
                    highest_stage |-> _get_highest_stage(stages_reached),
                    first_source |-> user_events[1].sessionSource,
                    first_medium |-> user_events[1].sessionMedium]]
        total_users == Len(progression_df)
        sum(flag) ==
            Cardinality({u \in 1..Len(progression_df) : progression_df[u][flag]})
    IN IF total_users = 0 THEN KeyError
       ELSE Returns(
           [progression_df |-> progression_df,
            printed |->
               [conversion_rate |-> percent(sum("reached_conversion"), total_users),
                AWARENESS |-> percent(sum("reached_awareness"), total_users),
                INTEREST |-> percent(sum("reached_interest"), total_users),
                CONSIDERATION |-> percent(sum("reached_consideration"), total_users),
                CONVERSION |-> percent(sum("reached_conversion"), total_users)]])

\* FunnelStageClassifier.analyze_stage_transitions: total is the int of
\* nunique(), and int / 0 raises ZeroDivisionError
analyze_stage_transitions(df) ==
    IF ~has_column(df, "userPseudoId") THEN KeyError
    ELSE
    LET user_groups == groupby_user(df)
        stages(g) == {user_groups[g][i].funnel_stage : i \in 1..Len(user_groups[g])}
        both(first, second) ==
            Cardinality({g \in 1..Len(user_groups) :
                            first \in stages(g) /\ second \in stages(g)})
        total == Cardinality({df[i].userPseudoId : i \in 1..Len(df)})
    IN IF total = 0 THEN ZeroDivisionError
       ELSE Returns(
           [AWARENESS_to_INTEREST |-> both("AWARENESS", "INTEREST"),
            INTEREST_to_CONSIDERATION |-> both("INTEREST", "CONSIDERATION"),
            CONSIDERATION_to_CONVERSION |-> both("CONSIDERATION", "CONVERSION"),
            total_users |-> total,
            conversion_rates |->
               [awareness_to_interest |->
                    percent(both("AWARENESS", "INTEREST"), total),
                interest_to_consideration |->
                    percent(both("INTEREST", "CONSIDERATION"), total),
                consideration_to_conversion |->
                    percent(both("CONSIDERATION", "CONVERSION"), total)]])

---------------------------------------------------------------------------
(* src/pattern_analyzer.py.  The analyzer is handed a classified frame by its
   caller (main.py, or the module's own usage example, which labels its rows
   by hand); user ids are character sequences here, since groupby sorts them. *)

\* df.groupby(column): the groups in ascending key order, each with its rows in
\* frame order
groupby(df, column) ==
    LET keys == in_order({df[i][column] : i \in 1..Len(df)}, str_lt)
    IN [k \in 1..Len(keys) |-> SelectSeq(df, LAMBDA row : row[column] = keys[k])]

\* sum of the numbers of a sequence
RECURSIVE sum(_)
sum(values) == IF values = <<>> THEN 0 ELSE Head(values) + sum(Tail(values))

\* Series.mean, to three decimals
mean(values) == (sum(values) * 1000) \div Len(values)

\* list.sort(key=lambda x: x[key], reverse=True): descending and stable
sort_reverse(list, key) == sort_values_descending(list, key, FALSE)

\* list[:n]
head(list, n) == SubSeq(list, 1, min(Len(list), n))

\* the features _identify_high_value_segments computes for one user
user_features(user_events, table) ==
    LET stages == {user_events[i].funnel_stage : i \in 1..Len(user_events)}
    IN [user_id |-> user_events[1].userPseudoId,
        converted |-> "CONVERSION" \in stages,
        total_events |-> Len(user_events),
        unique_pages |->
            Cardinality({user_events[i].pagePath : i \in 1..Len(user_events)}),
        sessions |->
            IF "sessionId" \in DOMAIN user_events[1]
            THEN Cardinality({user_events[i].sessionId : i \in 1..Len(user_events)})
            ELSE 1,
        source |-> user_events[1].sessionSource,
        medium |-> user_events[1].sessionMedium,
        traffic_group |->
            get_traffic_group(table, user_events[1].sessionSource,
                              user_events[1].sessionMedium),
        stages_reached |-> Cardinality(stages \ {"UNKNOWN"}),
        has_content_engagement |-> "INTEREST" \in stages,
        has_service_exploration |-> "CONSIDERATION" \in stages]

\* segment_definitions: the names in list order (the descriptions are Korean
\* texts of no consequence)
segment_definitions == <<
    "High Engagement + Content Lovers",
    "Multi-Session Explorers",
    "Paid Traffic High Intent",
    "Content to Service Path" >>

\* segment_def['condition'] applied to one row of users_df
condition(segment_name, user) ==
    CASE segment_name = "High Engagement + Content Lovers" ->
             user.total_events >= 10 /\ user.has_content_engagement
      [] segment_name = "Multi-Session Explorers" -> user.sessions >= 2
      [] segment_name = "Paid Traffic High Intent" ->
             user.traffic_group = "paid_search" /\ user.stages_reached >= 3
      [] segment_name = "Content to Service Path" ->
             user.has_content_engagement /\ user.has_service_exploration

\* the least size of a reported segment
min_segment_users == 20

\* the size test with `>` for `>=`
is_segment_above(segment_users) == Len(segment_users) > min_segment_users

\* len(segment_users) >= 20
is_segment(segment_users) == Len(segment_users) >= min_segment_users

\* PatternAnalyzer._identify_high_value_segments.  A frame without rows gives
\* a users_df without columns, and the first condition raises KeyError.
_identify_high_value_segments(classified_df, table) ==
    IF \E column \in {"userPseudoId", "funnel_stage", "pagePath",
                      "sessionSource", "sessionMedium"} :
           ~has_column(classified_df, column)
    THEN KeyError
    ELSE
    LET user_groups == groupby(classified_df, "userPseudoId")
        users_df == [g \in 1..Len(user_groups) |->
                        user_features(user_groups[g], table)]
        segment(d) ==
            LET segment_users ==
                    SelectSeq(users_df,
                              LAMBDA user : condition(segment_definitions[d], user))
                converted ==
                    Len(SelectSeq(segment_users, LAMBDA user : user.converted))
            IN IF is_segment(segment_users)
               THEN LET conversion_rate == percent(converted, Len(segment_users))
                    IN <<[segment_name |-> segment_definitions[d],
                          users_count |-> Len(segment_users),
                          conversions |-> converted,
                          conversion_rate |-> conversion_rate,
                          avg_events |->
                              mean([u \in 1..Len(segment_users) |->
                                       segment_users[u].total_events]),
                          avg_pages |->
                              mean([u \in 1..Len(segment_users) |->
                                       segment_users[u].unique_pages]),
                          segment_value |-> conversion_rate * Len(segment_users)]>>
               ELSE <<>>
        segments == segment(1) \o segment(2) \o segment(3) \o segment(4)
    IN Returns(head(sort_reverse(segments, "segment_value"), 5))

\* the distinct values of a sequence in the order of their first appearance
RECURSIVE unique(_)
unique(values) ==
    IF values = <<>> THEN <<>>
    ELSE LET rest == unique(SubSeq(values, 1, Len(values) - 1))
             last == values[Len(values)]
         IN IF \E i \in 1..Len(rest) : rest[i] = last THEN rest
            ELSE Append(rest, last)

\* Series.value_counts(): the distinct values with their counts, the most
\* frequent first; values with equal counts come in either order
value_counts(values, unstable) ==
    LET distinct == unique(values)
    IN sort_values_descending(
           [k \in 1..Len(distinct) |->
               [value |-> distinct[k],
                count |-> Cardinality({i \in 1..Len(values) :
                                          values[i] = distinct[k]})]],
           "count", unstable)

\* stage_order of _identify_drop_off_points
stage_order == <<"AWARENESS", "INTEREST", "CONSIDERATION", "CONVERSION">>

\* the stage of stage_order found first from its end among valid_stages, for a
\* user with at least one valid stage
last_stage_of(valid_stages) ==
    stage_order[CHOOSE k \in 1..Len(stage_order) :
                   /\ stage_order[k] \in valid_stages
                   /\ \A j \in (k + 1)..Len(stage_order) :
                         stage_order[j] \notin valid_stages]

\* the test that keeps every user with a valid stage, converted or not
is_drop_off_any(last_stage) == TRUE

\* `last_stage and last_stage != 'CONVERSION'`
is_drop_off(last_stage) == last_stage # "CONVERSION"

\* PatternAnalyzer._identify_drop_off_points (pagePath and sessionSource are
\* columns of every frame of the model)
_identify_drop_off_points(classified_df, unstable) ==
    IF \E column \in {"userPseudoId", "funnel_stage"} :
           ~has_column(classified_df, column)
    THEN KeyError
    ELSE
    LET user_groups == groupby(classified_df, "userPseudoId")
        valid_stages(user_events) ==
            {user_events[i].funnel_stage : i \in 1..Len(user_events)} \ {"UNKNOWN"}
        dropped ==
            SelectSeq(user_groups,
                      LAMBDA user_events :
                          /\ valid_stages(user_events) # {}
                          /\ is_drop_off(last_stage_of(valid_stages(user_events))))
        last_stages_df ==
            [u \in 1..Len(dropped) |->
                [user_id |-> dropped[u][1].userPseudoId,
                 last_stage |-> last_stage_of(valid_stages(dropped[u])),
                 last_page |-> dropped[u][Len(dropped[u])].pagePath,
                 last_source |-> dropped[u][1].sessionSource,
                 total_events |-> Len(dropped[u])]]
        drop_off_point(stage) ==
            LET stage_dropoffs ==
                    SelectSeq(last_stages_df, LAMBDA user : user.last_stage = stage)
                top_dropoff_pages ==
                    head(value_counts([u \in 1..Len(stage_dropoffs) |->
                                          stage_dropoffs[u].last_page], unstable), 5)
            IN IF stage_dropoffs = <<>> THEN <<>>
               ELSE <<[stage |-> stage,
                       total_dropoffs |-> Len(stage_dropoffs),
                       dropoff_rate |->
                           percent(Len(stage_dropoffs), Len(last_stages_df)),
                       top_dropoff_pages |->
                           [p \in 1..Len(top_dropoff_pages) |->
                               [page |-> top_dropoff_pages[p].value,
                                count |-> top_dropoff_pages[p].count,
                                percentage |->
                                    percent(top_dropoff_pages[p].count,
                                            Len(stage_dropoffs))]]]>>
    IN Returns(drop_off_point("AWARENESS") \o drop_off_point("INTEREST")
                   \o drop_off_point("CONSIDERATION"))

\* priority_order.get(x['priority'], 0)
priority_order(priority) ==
    CASE priority = "High" -> 3
      [] priority = "Medium" -> 2
      [] priority = "Low" -> 1
      [] OTHER -> 0

\* the sort without reverse=True: the lowest priority first
sort_by_priority_ascending(all_opportunities) ==
    LET of_rank(k) ==
            SelectSeq(all_opportunities,
                      LAMBDA x : priority_order(x.priority) = k)
    IN of_rank(0) \o of_rank(1) \o of_rank(2) \o of_rank(3)

\* all_opportunities.sort(key=priority_order, reverse=True): list.sort is
\* stable, so the records of one priority stay in list order
sort_by_priority(all_opportunities) ==
    LET of_rank(k) ==
            SelectSeq(all_opportunities,
                      LAMBDA x : priority_order(x.priority) = k)
    IN of_rank(3) \o of_rank(2) \o of_rank(1) \o of_rank(0)

\* max(list, key=lambda x: x[key]): the first of the largest
max_by(list, key) ==
    list[CHOOSE i \in 1..Len(list) :
            /\ \A j \in 1..Len(list) : list[j][key] <= list[i][key]
            /\ \A j \in 1..(i - 1) : list[j][key] < list[i][key]]

\* PatternAnalyzer._generate_optimization_insights.  page_category_engagement
\* is a dict in the code, here the sequence of its items in dict order; the
\* recommendation texts are left out.
_generate_optimization_insights(patterns) ==
    LET source_patterns == patterns.source_page_combinations
        source_optimization ==
            IF source_patterns # <<>>
            THEN <<[type |-> "Scale Best Combination",
                    traffic_group |-> source_patterns[1].traffic_group,
                    combination |-> source_patterns[1].best_combination.combination,
                    current_conversion_rate |->
                        source_patterns[1].best_combination.conversion_rate,
                    priority |-> "High"]>>
            ELSE <<>>
        journey_patterns == patterns.journey_patterns
        journey_optimization ==
            IF /\ "common_paths" \in DOMAIN journey_patterns
               /\ journey_patterns.common_paths # <<>>
            THEN <<[type |-> "Optimize High-Converting Path",
                    path |-> journey_patterns.common_paths[1].path,
                    conversion_rate |->
                        journey_patterns.common_paths[1].conversion_rate,
                    priority |-> "Medium"]>>
            ELSE <<>>
        engagement_patterns == patterns.engagement_patterns
        high_converting_categories ==
            IF "page_category_engagement" \in DOMAIN engagement_patterns
            THEN SelectSeq(engagement_patterns.page_category_engagement,
                           LAMBDA data : /\ data.conversion_rate > Pct(20)
                                         /\ data.total_users > 50)
            ELSE <<>>
        content_optimization ==
            IF high_converting_categories # <<>>
            THEN LET best_category ==
                         max_by(high_converting_categories, "conversion_rate")
                 IN <<[type |-> "Expand High-Converting Content",
                       category |-> best_category.category,
                       conversion_rate |-> best_category.conversion_rate,
                       priority |-> "Medium"]>>
            ELSE <<>>
        high_value_segments == patterns.high_value_segments
        segment_wins ==
            IF high_value_segments # <<>>
            THEN <<[type |-> "Target High-Value Segment",
                    segment |-> high_value_segments[1].segment_name,
                    conversion_rate |-> high_value_segments[1].conversion_rate,
                    users_count |-> high_value_segments[1].users_count,
                    priority |-> "High"]>>
            ELSE <<>>
        drop_off_points == patterns.drop_off_points
        dropoff_wins ==
            IF drop_off_points # <<>>
            THEN LET major_dropoff == max_by(drop_off_points, "total_dropoffs")
                 IN IF major_dropoff.top_dropoff_pages # <<>>
                    THEN <<[type |-> "Fix Major Drop-off Point",
                            stage |-> major_dropoff.stage,
                            page |-> major_dropoff.top_dropoff_pages[1].page,
                            dropoff_count |->
                                major_dropoff.top_dropoff_pages[1].count,
                            priority |-> "High"]>>
                    ELSE <<>>
            ELSE <<>>
        quick_wins == segment_wins \o dropoff_wins
        all_opportunities ==
            source_optimization \o content_optimization \o journey_optimization
                \o quick_wins
    IN [top_opportunities |-> head(sort_by_priority(all_opportunities), 5),
        source_optimization |-> source_optimization,
        content_optimization |-> content_optimization,
        journey_optimization |-> journey_optimization,
        quick_wins |-> quick_wins]

---------------------------------------------------------------------------
(* src/conversion_calculator.py: the opportunity list of the summary *)

\* min(step_rates.items(), key=lambda x: x[1]): the first of the smallest, in
\* dict order
bottleneck_of(step_rates) ==
    LET items == <<
            [step |-> "awareness_to_interest",
             rate |-> step_rates.awareness_to_interest],
            [step |-> "interest_to_consideration",
             rate |-> step_rates.interest_to_consideration],
            [step |-> "consideration_to_conversion",
             rate |-> step_rates.consideration_to_conversion] >>
    IN items[CHOOSE i \in 1..3 :
                /\ \A j \in 1..3 : items[i].rate <= items[j].rate
                /\ \A j \in 1..(i - 1) : items[i].rate < items[j].rate]

\* ConversionCalculator._identify_optimization_opportunities; the description
\* texts are left out, `subject` is what they name
_identify_optimization_opportunities(stage_conversions, source_conversions, content_conversions) ==
    LET bottleneck ==
            IF "step_conversions" \in DOMAIN stage_conversions
            THEN <<bottleneck_of(stage_conversions.step_conversions)>>
            ELSE <<>>
        funnel ==
            IF bottleneck # <<>> /\ bottleneck[1].rate < Pct(50)
            THEN <<[type |-> "Funnel Bottleneck", subject |-> bottleneck[1].step,
                    priority |-> "High"]>>
            ELSE <<>>
        high_performers ==
            SelectSeq(source_conversions,
                      LAMBDA source : /\ source.conversion_rate > Pct(15)
                                      /\ source.total_users < 100)
        low_performers ==
            SelectSeq(content_conversions,
                      LAMBDA content : /\ content.conversion_rate < Pct(5)
                                       /\ content.total_users > 50)
        opportunities ==
            funnel
            \o [k \in 1..Len(high_performers) |->
                   [type |-> "Scale High Performer",
                    subject |-> high_performers[k].source_medium,
                    priority |-> "Medium"]]
            \o [k \in 1..Len(low_performers) |->
                   [type |-> "Content Optimization",
                    subject |-> low_performers[k].page_path,
                    priority |-> "Medium"]]
    IN head(opportunities, 10)

---------------------------------------------------------------------------
(* src/conversion_analyzer.py and src/simple_funnel_analyzer.py: the       *)
(* session-based source aggregates.  Both read two GA4 reports keyed by    *)
(* (sessionSource, sessionMedium): the traffic report with activeUsers,    *)
(* sessions and screenPageViews, and the report of the sign-up event with  *)
(* eventCount.  The Korean reliability labels are romanised.               *)

\* row['sessionSource'] + ' / ' + row['sessionMedium']
source_medium_of(source, medium) == source \o <<" ","/"," ">> \o medium

\* round(conversions / sessions * 100, 2), half to even, as a rate
round_2(conversions, sessions) ==
    LET hundredths == (conversions * 10000) \div sessions
        rest == (conversions * 10000) % sessions
    IN IF 2 * rest > sessions \/ (2 * rest = sessions /\ hundredths % 2 = 1)
       THEN (hundredths + 1) * 10
       ELSE hundredths * 10

\* the rate with a row of no sessions counted as a row of one session
session_conversion_rate_of_one(conversions, sessions) ==
    IF sessions > 0 THEN round_2(conversions, sessions)
    ELSE round_2(conversions + 1, 1)

\* round((conversions / row['sessions'] * 100) if row['sessions'] > 0 else 0, 2)
session_conversion_rate(conversions, sessions) ==
    IF sessions > 0 THEN round_2(conversions, sessions) ELSE 0

\* conversion_rate > percent, conversion_rate being the unrounded rate
rate_above(conversions, sessions, percent_value) ==
    sessions > 0 /\ conversions * 100 > percent_value * sessions

\* ConversionAnalyzer._assess_reliability
_assess_reliability(sessions, conversions) ==
    IF conversions = 0 THEN "jeonhwan eopseum"
    ELSE IF rate_above(conversions, sessions, 50) THEN "bijeongsangjeok"
    ELSE IF sessions >= 100 /\ ~rate_above(conversions, sessions, 20)
         THEN "sinroedo nopeum"
    ELSE IF sessions >= 30 /\ ~rate_above(conversions, sessions, 30)
         THEN "sinroedo botong"
    ELSE "sinroedo najeum"

\* RealisticFunnelAnalyzer._assess_reliability
_assess_reliability_realistic(users, sessions, conversions) ==
    IF conversions = 0 THEN "jeonhwan eopseum"
    ELSE IF rate_above(conversions, sessions, 50)
         THEN "bijeongsangjeok - geomto piryo"
    ELSE IF sessions < 10 THEN "pyobon bujok"
    ELSE IF sessions >= 100 /\ ~rate_above(conversions, sessions, 20)
         THEN "sinroedo nopeum"
    ELSE IF sessions >= 30 /\ ~rate_above(conversions, sessions, 30)
         THEN "sinroedo botong"
    ELSE "sinroedo najeum"

\* conversion_dict: each row of the conversion report is stored under its
\* key, a later row replacing an earlier one; .get(key, 0)
conversion_dict_get(conversion_rows, key) ==
    LET matching == SelectSeq(conversion_rows, LAMBDA row : row.source_medium = key)
    IN IF matching = <<>> THEN 0 ELSE matching[Len(matching)].conversions

\* ConversionAnalyzer._calculate_conversion_rates
_calculate_conversion_rates(traffic_data, conversion_data, unstable) ==
    IF ~has_column(traffic_data, "sessionSource") THEN KeyError
    ELSE
        LET conversion_rows ==
                [i \in 1..Len(conversion_data) |->
                    [source_medium |->
                         source_medium_of(conversion_data[i].sessionSource,
                                          conversion_data[i].sessionMedium),
                     conversions |-> conversion_data[i].eventCount]]
            result(row) ==
                LET key == source_medium_of(row.sessionSource, row.sessionMedium)
                    conversions == conversion_dict_get(conversion_rows, key)
                IN [source_medium |-> key,
                    source |-> row.sessionSource,
                    medium |-> row.sessionMedium,
                    users |-> row.activeUsers,
                    sessions |-> row.sessions,
                    page_views |-> row.screenPageViews,
                    conversions |-> conversions,
                    conversion_rate |->
                        session_conversion_rate(conversions, row.sessions),
                    reliability |-> _assess_reliability(row.sessions, conversions)]
            results == [i \in 1..Len(traffic_data) |-> result(traffic_data[i])]
        IN Returns(sort_values_descending(results, "conversion_rate", unstable))

\* ConversionAnalyzer.analyze from the two reports on: {} without traffic
analyze(traffic_data, conversion_data, unstable) ==
    IF traffic_data = <<>> THEN Returns(<<>>)
    ELSE
        LET result == _calculate_conversion_rates(traffic_data, conversion_data,
                                                  unstable).value
            total_sessions == sum([i \in 1..Len(result) |-> result[i].sessions])
            total_conversions ==
                sum([i \in 1..Len(result) |-> result[i].conversions])
        IN Returns(
            [analysis_info |->
                 [total_sessions |-> total_sessions,
                  total_conversions |-> total_conversions,
                  overall_rate |->
                      IF total_sessions > 0
                      THEN round_2(total_conversions, total_sessions) ELSE 0],
             conversion_summary |-> result])

\* get_session_based_traffic from the response on: source_medium is added
\* and the two dimensions are renamed, unless the report is empty
get_session_based_traffic(response) ==
    [i \in 1..Len(response) |->
        [source_medium |->
             source_medium_of(response[i].sessionSource, response[i].sessionMedium),
         source |-> response[i].sessionSource,
         medium |-> response[i].sessionMedium,
         activeUsers |-> response[i].activeUsers,
         sessions |-> response[i].sessions,
         screenPageViews |-> response[i].screenPageViews]]

\* get_conversion_events_same_period from the response on
get_conversion_events_same_period(response) ==
    [i \in 1..Len(response) |->
        [source_medium |->
             source_medium_of(response[i].sessionSource, response[i].sessionMedium),
         source |-> response[i].sessionSource,
         medium |-> response[i].sessionMedium,
         conversions |-> response[i].eventCount]]

\* RealisticFunnelAnalyzer._calculate_realistic_conversion_rates
_calculate_realistic_conversion_rates(traffic_data, conversion_data, unstable) ==
    IF traffic_data = <<>> THEN KeyError
    ELSE
        LET result(row) ==
                LET conversions ==
                        conversion_dict_get(conversion_data, row.source_medium)
                IN [source_medium |-> row.source_medium,
                    source |-> row.source,
                    medium |-> row.medium,
                    users |-> row.activeUsers,
                    sessions |-> row.sessions,
                    page_views |-> row.screenPageViews,
                    conversions |-> conversions,
                    conversion_rate |->
                        session_conversion_rate(conversions, row.sessions),
                    reliability |->
                        _assess_reliability_realistic(row.activeUsers,
                                                      row.sessions, conversions)]
            results == [i \in 1..Len(traffic_data) |-> result(traffic_data[i])]
        IN Returns(sort_values_descending(results, "conversion_rate", unstable))

\* RealisticFunnelAnalyzer.analyze_funnel, steps 1, 2 and 4: {} without
\* traffic, else the source_summary of the result
analyze_funnel(traffic_response, conversion_response, unstable) ==
    LET traffic_data == get_session_based_traffic(traffic_response)
        conversion_data == get_conversion_events_same_period(conversion_response)
    IN IF traffic_data = <<>> THEN Returns(<<>>)
       ELSE Returns(
               [source_summary |->
                    _calculate_realistic_conversion_rates(
                        traffic_data, conversion_data, unstable).value])

---------------------------------------------------------------------------
(* The events of the model *)

Event(name, path, source, msec) ==
    [eventName |-> name, pagePath |-> path, sessionSource |-> source,
     engagementTimeMsec |-> msec]

\* what the first user can do: the trigger events and pages of the rule table
EventKinds == {
    Event("session_start", <<"/">>, <<"g","o","o","g","l","e">>, NaN),
    Event("first_visit", <<"/","s","k","i","l","l","-","g","u","i","d","e","/","o","n","e","-","c","l","i","c","k">>, <<"(","d","i","r","e","c","t",")">>, NaN),
    Event("visit_blog", <<"/","p","o","s","t","s","/","7","3","9">>, <<"g","o","o","g","l","e">>, <<20000>>),
    Event("user_engagement", <<"/","p","r","o","v","i","d","e","r","-","j","o","i","n">>, <<"g","o","o","g","l","e">>, <<15000>>),
    Event("page_view", <<"/","p","r","o","v","i","d","e","r","s">>, <<"(","d","i","r","e","c","t",")">>, NaN),
    Event("page_view", <<"/","p","r","o","v","i","d","e","r","-","j","o","i","n">>, <<"(","d","i","r","e","c","t",")">>, NaN),
    Event(conversion_event_name, <<"/","p","r","o","v","i","d","e","r","-","j","o","i","n">>, <<"(","d","i","r","e","c","t",")">>, NaN),
    Event(conversion_event_name, <<"/">>, <<"g","o","o","g","l","e">>, NaN),
    Event("scroll", <<"/","l","o","g","i","n">>, <<"(","d","i","r","e","c","t",")">>, NaN) }

\* what the other users do
OtherKinds == {
    Event("session_start", <<"/">>, <<"g","o","o","g","l","e">>, NaN),
    Event(conversion_event_name, <<"/","p","r","o","v","i","d","e","r","-","j","o","i","n">>, <<"(","d","i","r","e","c","t",")">>, NaN) }

Row(user, ts, kind) == [userPseudoId |-> user, eventTimestamp |-> ts] @@ kind

\* the rows the loader can append
Rows ==
    {Row(UserIds[1], ts, k) : ts \in 1..MaxTime, k \in EventKinds}
    \cup
    {Row(UserIds[u], ts, k) :
        u \in 2..Len(UserIds), ts \in 1..MaxTime, k \in OtherKinds}

\* the sample frame of the module's usage example
sample_data == <<
    Row("user1", 1, Event("session_start", <<"/">>, <<"g","o","o","g","l","e">>, NaN)),
    Row("user1", 2, Event("user_engagement", <<"/","p","o","s","t","s","/","7","3","9">>, <<"g","o","o","g","l","e">>, NaN)),
    Row("user2", 3, Event(conversion_event_name, <<"/","p","r","o","v","i","d","e","r","-","j","o","i","n">>,
                          <<"d","i","r","e","c","t">>, NaN)) >>

\* a user who has already browsed four pages, two events per timestamp
BrowsingJourney == <<
    Row("user1", 1, Event("session_start", <<"/">>, <<"g","o","o","g","l","e">>, NaN)),
    Row("user1", 1, Event("user_engagement", <<"/","p","o","s","t","s","/","7","3","9">>, <<"g","o","o","g","l","e">>,
                          <<20000>>)),
    Row("user1", 2, Event("page_view", <<"/","f","e","e","-","i","n","f","o","r","m","a","t","i","o","n">>, <<"g","o","o","g","l","e">>, NaN)),
    Row("user1", 2, Event("page_view", <<"/","l","o","g","i","n">>, <<"(","d","i","r","e","c","t",")">>, NaN)) >>

\* two users whose rows are interleaved and not in timestamp order
ShuffledFrame == <<
    Row("user2", 3, Event("session_start", <<"/">>, <<"g","o","o","g","l","e">>, NaN)),
    Row("user1", 2, Event("visit_blog", <<"/","p","o","s","t","s","/","7","3","9">>, <<"g","o","o","g","l","e">>, NaN)),
    Row("user2", 1, Event("page_view", <<"/","s","e","r","v","i","c","e","-","p","l","a","n","/","b","a","s","i","c">>, <<"(","d","i","r","e","c","t",")">>,
                          NaN)) >>

\* two users who come to the signup page from a bookmark after a session
\* start: one views the page, the other scrolls it
SignupVisit == <<
    Row("user1", 1, Event("session_start", <<"/">>, <<"g","o","o","g","l","e">>, NaN)),
    Row("user1", 2, Event("page_view", <<"/","p","r","o","v","i","d","e","r","-","j","o","i","n">>, <<"(","d","i","r","e","c","t",")">>, NaN)),
    Row("user2", 1, Event("session_start", <<"/">>, <<"g","o","o","g","l","e">>, NaN)),
    Row("user2", 2, Event("scroll", <<"/","p","r","o","v","i","d","e","r","-","j","o","i","n">>, <<"(","d","i","r","e","c","t",")">>, NaN)) >>

\* the frames a run starts from
SeedFrames == {<<>>, sample_data, BrowsingJourney, ShuffledFrame, SignupVisit}

\* an event with the session columns of the loader's report
Visit(event, medium, device) ==
    [sessionMedium |-> medium, deviceCategory |-> device, sessionId |-> "1001"]
        @@ event

\* what the users of the aggregated frames do
SummaryKinds == {
    Visit(Event("session_start", <<"/">>, <<"g","o","o","g","l","e">>, NaN), <<"c","p","c">>, <<"d","e","s","k","t","o","p">>),
    Visit(Event("visit_blog", <<"/","p","o","s","t","s","/","7","3","9">>, <<"g","o","o","g","l","e">>, <<20000>>), <<"o","r","g","a","n","i","c">>, <<"m","o","b","i","l","e">>),
    Visit(Event("page_view", <<"/","p","r","o","v","i","d","e","r","s">>, <<"(","d","i","r","e","c","t",")">>, NaN), <<"(","n","o","n","e",")">>, <<"d","e","s","k","t","o","p">>),
    Visit(Event(conversion_event_name, <<"/","p","r","o","v","i","d","e","r","-","j","o","i","n">>, <<"(","d","i","r","e","c","t",")">>, NaN), <<"(","n","o","n","e",")">>, <<"m","o","b","i","l","e">>) }

\* the rows the loader can append to a frame that is aggregated
SummaryRows ==
    {Row(UserIds[u], ts, k) :
        u \in 1..Len(UserIds), ts \in 1..MaxTime, k \in SummaryKinds}

\* the sample frame with its sessionMedium column: cpc, cpc, none
sample_frame ==
    [i \in 1..Len(sample_data) |->
        [sessionMedium |-> IF i <= 2 THEN <<"c","p","c">> ELSE <<"n","o","n","e">>] @@ sample_data[i]]

\* user1 comes from google, views a post and signs up on the signup page;
\* user2 only starts a session
TwoUserScenario == <<
    Row("user1", 1, Visit(Event("session_start", <<"/">>, <<"g","o","o","g","l","e">>, NaN), <<"c","p","c">>, <<"d","e","s","k","t","o","p">>)),
    Row("user1", 2, Visit(Event("page_view", <<"/","p","o","s","t","s","/","5">>, <<"g","o","o","g","l","e">>, NaN), <<"c","p","c">>, <<"d","e","s","k","t","o","p">>)),
    Row("user1", 3, Visit(Event(conversion_event_name, <<"/","p","r","o","v","i","d","e","r","-","j","o","i","n">>, <<"g","o","o","g","l","e">>, NaN), <<"c","p","c">>, <<"d","e","s","k","t","o","p">>)),
    Row("user2", 1, Visit(Event("session_start", <<"/">>, <<"g","o","o","g","l","e">>, NaN), <<"c","p","c">>, <<"m","o","b","i","l","e">>)) >>

\* the same events with user2 first and user1's rows latest first
TwoUserScenarioShuffled ==
    <<TwoUserScenario[4], TwoUserScenario[3], TwoUserScenario[2], TwoUserScenario[1]>>

\* user1 came from google and returned directly, the rows latest first; user2
\* signs up directly
ReturningVisitor == <<
    Row("user1", 2, Visit(Event("page_view", <<"/","p","r","o","v","i","d","e","r","s">>, <<"(","d","i","r","e","c","t",")">>, NaN), <<"(","n","o","n","e",")">>, <<"m","o","b","i","l","e">>)),
    Row("user2", 2, Visit(Event(conversion_event_name, <<"/","p","r","o","v","i","d","e","r","-","j","o","i","n">>, <<"(","d","i","r","e","c","t",")">>, NaN), <<"(","n","o","n","e",")">>, <<"d","e","s","k","t","o","p">>)),
    Row("user1", 1, Visit(Event("session_start", <<"/">>, <<"g","o","o","g","l","e">>, NaN), <<"c","p","c">>, <<"m","o","b","i","l","e">>)) >>

\* the frames an aggregated run starts from
SummaryFrames ==
    {<<>>, sample_frame, TwoUserScenario, TwoUserScenarioShuffled, ReturningVisitor}

---------------------------------------------------------------------------
(* The state machine: the loader appends rows to the frame, then main.py
   classifies it, once or twice *)

Init ==
    /\ events_df \in SeedFrames
    /\ loaded = 0
    /\ result_df = <<>>
    /\ first_df = <<>>
    /\ calls = 0
    /\ unstable_sort \in BOOLEAN
    /\ report = <<>>
    /\ call = <<>>
    /\ ret = <<>>

\* the loader appends one row to the frame
LoadRow ==
    /\ calls = 0
    /\ loaded < MaxEvents
    /\ \E row \in Rows : events_df' = Append(events_df, row)
    /\ loaded' = loaded + 1
    /\ UNCHANGED <<result_df, first_df, calls, unstable_sort, report, call, ret>>

\* main.py: classified_data = classify_user_events(raw_data)
Classify ==
    /\ calls < MaxCalls
    /\ \E r \in {classify_user_events(events_df, page_categories, unstable_sort)} :
          /\ events_df' = r.caller
          /\ result_df' = r.returned
          /\ first_df' = IF calls = 0 THEN r.returned ELSE first_df
    /\ calls' = calls + 1
    /\ UNCHANGED <<loaded, unstable_sort, report, call, ret>>

Next == LoadRow \/ Classify

Spec == Init /\ [][Next]_vars

---------------------------------------------------------------------------
(* The aggregation run: the loader appends rows to the frame, the frame is
   classified once, and the aggregates are computed from the classified frame.
   Each aggregate is a function of the classified frame alone; they are
   computed in the order of generate_conversion_summary. *)

SummaryInit ==
    /\ events_df \in SummaryFrames
    /\ loaded = 0
    /\ result_df = <<>>
    /\ first_df = <<>>
    /\ calls = 0
    /\ unstable_sort \in BOOLEAN
    /\ report = <<>>
    /\ call = <<>>
    /\ ret = <<>>

\* the loader appends one row, with the columns the frame has
LoadEvent ==
    /\ calls = 0
    /\ loaded < MaxEvents
    /\ \E row \in SummaryRows :
          events_df' =
              Append(events_df,
                     IF events_df = <<>> THEN row
                     ELSE [c \in DOMAIN events_df[1] |-> row[c]])
    /\ loaded' = loaded + 1
    /\ UNCHANGED <<result_df, first_df, calls, unstable_sort, report, call, ret>>

\* classified_data = classify_user_events(raw_data)
ClassifyEvents == calls = 0 /\ Classify

\* the operation `op` is the next to run, and hands back `result`
Aggregate(k, op, result) ==
    /\ calls = 1
    /\ Len(report) = k - 1
    /\ report' = Append(report, [op |-> op] @@ result)
    /\ UNCHANGED <<events_df, loaded, result_df, first_df, calls, unstable_sort,
                   call, ret>>

StageConversions ==
    Aggregate(1, "calculate_stage_conversions",
              calculate_stage_conversions(result_df))

SourceConversions ==
    Aggregate(2, "calculate_source_conversions",
              calculate_source_conversions(result_df, traffic_groups, unstable_sort))

ContentConversions ==
    Aggregate(3, "calculate_content_conversions",
              calculate_content_conversions(result_df, unstable_sort))

DeviceConversions ==
    Aggregate(4, "calculate_device_conversions",
              calculate_device_conversions(result_df, unstable_sort))

TimeBasedConversions ==
    Aggregate(5, "calculate_time_based_conversions",
              calculate_time_based_conversions(result_df))

UserFunnelProgression ==
    Aggregate(6, "get_user_funnel_progression",
              get_user_funnel_progression(result_df))

StageTransitions ==
    Aggregate(7, "analyze_stage_transitions",
              analyze_stage_transitions(result_df))

SummaryNext ==
    \/ LoadEvent
    \/ ClassifyEvents
    \/ StageConversions
    \/ SourceConversions
    \/ ContentConversions
    \/ DeviceConversions
    \/ TimeBasedConversions
    \/ UserFunnelProgression
    \/ StageTransitions

SpecSummary == SummaryInit /\ [][SummaryNext]_vars

---------------------------------------------------------------------------
(* The pure helpers, each called once on arguments of the sets below *)

\* the one-category table {"content": ["/posts/*"]}
content_table == << [category |-> "content", patterns |-> << <<"/","p","o","s","t","s","/","*">> >>] >>

PagePaths == {
    <<"/">>, <<"/","l","o","g","i","n">>, <<"/","i","d","-","l","o","g","i","n">>,
    <<"/","p","r","o","v","i","d","e","r","-","j","o","i","n">>,
    <<"/","p","o","s","t","s","/","1","2","3">>, <<"/","p","o","s","t","s">>,
    <<"/","p","o","s","t","s","/">>, <<"/","o","t","h","e","r">>,
    <<"/","s","k","i","l","l","-","g","u","i","d","e","/","o","n","e","-","c","l","i","c","k">>,
    <<"/","s","k","i","l","l","-","g","u","i","d","e">>,
    <<"/","p","-","p","o","s","t","s","/","q","n","a">>, <<"/","p","-","p","o","s","t","s","/","1">>,
    <<"/","f","e","e","-","i","n","f","o","r","m","a","t","i","o","n">>,
    <<"/","p","r","o","v","i","d","e","r","s">>,
    <<"/","s","e","r","v","i","c","e","-","p","l","a","n","/","b","a","s","i","c">>,
    <<"/","s","e","r","v","i","c","e","-","p","l","a","n">>, <<"/","o","r","d","e","r","/","1">>,
    <<"/","p","r","o","d","u","c","t","s","/">>,
    <<"/","d","i","s","t","r","i","b","u","t","i","o","n","/","x">>,
    <<"/","p","o","s","t","s","/","7","3","9">>, <<>> }

Sources == {
    <<"g","o","o","g","l","e">>, <<"n","a","v","e","r">>, <<"d","a","u","m">>, <<"b","l","o","g">>,
    <<"i","n","s","t","a","g","r","a","m">>, <<"y","o","u","t","u","b","e">>,
    <<"(","d","i","r","e","c","t",")">>, <<"(","n","o","t"," ","s","e","t",")">>,
    <<"s","t","i","b","e","e">>, <<"p","a","r","t","n","e","r">> }

Mediums == {
    <<"c","p","c">>, <<"c","p","c","2">>, <<"o","r","g","a","n","i","c">>, <<"s","n","s">>,
    <<"r","e","f","e","r","r","a","l">>, <<"(","n","o","n","e",")">>,
    <<"(","n","o","t"," ","s","e","t",")">>, <<"e","m","a","i","l">> }

\* conversion rates around the tier thresholds, and volumes around theirs
Rates == {0, Pct(2) - 10, Pct(2), Pct(5) - 10, Pct(5), Pct(10) - 10, Pct(10),
          Pct(20) - 10, Pct(20), Pct(100)}

Volumes == {1, 49, 50, 99, 100, 199, 200, 1000}

Calls ==
    [fn : {"get_page_category"}, table : {page_categories, content_table},
     page_path : PagePaths]
    \cup [fn : {"get_traffic_group"}, table : {traffic_groups},
          source : Sources, medium : Mediums]
    \cup [fn : {"_assess_traffic_quality"}, conversion_rate : Rates,
          volume : Volumes]

FunctionsInit ==
    /\ call \in Calls
    /\ ret = <<>>
    /\ events_df = <<>>
    /\ loaded = 0
    /\ result_df = <<>>
    /\ first_df = <<>>
    /\ calls = 0
    /\ unstable_sort = FALSE
    /\ report = <<>>

GetPageCategory ==
    /\ call.fn = "get_page_category"
    /\ ret = <<>>
    /\ ret' = <<get_page_category(call.table, call.page_path)>>
    /\ UNCHANGED <<events_df, loaded, result_df, first_df, calls, unstable_sort,
                   report, call>>

GetTrafficGroup ==
    /\ call.fn = "get_traffic_group"
    /\ ret = <<>>
    /\ ret' = <<get_traffic_group(call.table, call.source, call.medium)>>
    /\ UNCHANGED <<events_df, loaded, result_df, first_df, calls, unstable_sort,
                   report, call>>

AssessTrafficQuality ==
    /\ call.fn = "_assess_traffic_quality"
    /\ ret = <<>>
    /\ ret' = <<_assess_traffic_quality(call.conversion_rate, call.volume)>>
    /\ UNCHANGED <<events_df, loaded, result_df, first_df, calls, unstable_sort,
                   report, call>>

FunctionsNext == GetPageCategory \/ GetTrafficGroup \/ AssessTrafficQuality

SpecFunctions == FunctionsInit /\ [][FunctionsNext]_vars

---------------------------------------------------------------------------
(* The pattern analysis run: the caller's classified frame grows by whole
   visitors, then analyze_conversion_patterns computes its analyses from it *)

\* visitors added to the frame a run starts from
MaxVisitors == 2

\* a classified event of a visitor who came from source / medium
Labelled(name, path, stage, ts, source, medium, session) ==
    [eventName |-> name, pagePath |-> path, funnel_stage |-> stage,
     page_category |-> get_page_category(page_categories, path),
     eventTimestamp |-> ts, sessionSource |-> source, sessionMedium |-> medium,
     sessionId |-> session]

\* reads a post, then the provider list
ContentToService == <<
    Labelled("visit_blog", <<"/","p","o","s","t","s","/","7","3","9">>, "INTEREST", 1, <<"n","a","v","e","r">>, <<"o","r","g","a","n","i","c">>, "1001"),
    Labelled("page_view", <<"/","p","r","o","v","i","d","e","r","s">>, "CONSIDERATION", 2, <<"n","a","v","e","r">>, <<"o","r","g","a","n","i","c">>, "1001") >>

\* comes from a paid search and goes through three stages
PaidHighIntent == <<
    Labelled("session_start", <<"/">>, "AWARENESS", 1, <<"g","o","o","g","l","e">>, <<"c","p","c">>, "1001"),
    Labelled("visit_blog", <<"/","p","o","s","t","s","/","7","3","9">>, "INTEREST", 2, <<"g","o","o","g","l","e">>, <<"c","p","c">>, "1001"),
    Labelled("page_view", <<"/","p","r","o","v","i","d","e","r","s">>, "CONSIDERATION", 3, <<"g","o","o","g","l","e">>, <<"c","p","c">>, "1001") >>

\* comes twice and only lands
MultiSession == <<
    Labelled("session_start", <<"/">>, "AWARENESS", 1, <<"(","d","i","r","e","c","t",")">>, <<"(","n","o","n","e",")">>, "1001"),
    Labelled("session_start", <<"/">>, "AWARENESS", 2, <<"(","d","i","r","e","c","t",")">>, <<"(","n","o","n","e",")">>, "1002") >>

\* ten events in one session, the second on a post
HighEngagement ==
    [i \in 1..10 |->
        IF i = 2
        THEN Labelled("user_engagement", <<"/","p","o","s","t","s","/","7","3","9">>, "INTEREST", 1, <<"n","a","v","e","r">>, <<"o","r","g","a","n","i","c">>, "1001")
        ELSE Labelled("scroll", <<"/">>, "AWARENESS", 1, <<"n","a","v","e","r">>, <<"o","r","g","a","n","i","c">>, "1001")]

\* lands and signs up
SignsUp == <<
    Labelled("session_start", <<"/">>, "AWARENESS", 1, <<"g","o","o","g","l","e">>, <<"c","p","c">>, "1001"),
    Labelled(conversion_event_name, <<"/","p","r","o","v","i","d","e","r","-","j","o","i","n">>, "CONVERSION", 2, <<"g","o","o","g","l","e">>, <<"c","p","c">>, "1001") >>

\* one event that carries no stage
Unlabelled == <<
    Labelled("scroll", <<"/","o","t","h","e","r">>, "UNKNOWN", 1, <<"(","d","i","r","e","c","t",")">>, <<"(","n","o","n","e",")">>, "1001") >>

\* what a visitor can do
VisitorJourneys ==
    {ContentToService, PaidHighIntent, MultiSession, HighEngagement, SignsUp,
     Unlabelled}

digits == <<"0", "1", "2", "3", "4", "5", "6", "7", "8", "9">>

\* the id of the n-th visitor: u01, u02, ...
VisitorId(n) == <<"u", digits[(n \div 10) + 1], digits[(n % 10) + 1]>>

\* the rows of a journey for the visitor `user`
VisitBy(user, journey) ==
    [i \in 1..Len(journey) |-> [userPseudoId |-> user] @@ journey[i]]

\* n visitors who all make the same journey
RECURSIVE Cohort(_, _)
Cohort(journey, n) ==
    IF n = 0 THEN <<>>
    ELSE Cohort(journey, n - 1) \o VisitBy(VisitorId(n), journey)

\* sample_classified of the module's usage example (the timestamps are
\* 10:00, 10:05, 14:00 and 14:30 of one day)
sample_classified == <<
    [userPseudoId |-> <<"u","s","e","r","1">>, sessionSource |-> <<"g","o","o","g","l","e">>, sessionMedium |-> <<"c","p","c">>,
     pagePath |-> <<"/">>, funnel_stage |-> "AWARENESS", eventName |-> "session_start",
     page_category |-> "homepage", eventTimestamp |-> 1],
    [userPseudoId |-> <<"u","s","e","r","1">>, sessionSource |-> <<"g","o","o","g","l","e">>, sessionMedium |-> <<"c","p","c">>,
     pagePath |-> <<"/","p","o","s","t","s","/","7","3","9">>, funnel_stage |-> "INTEREST", eventName |-> "visit_blog",
     page_category |-> "content", eventTimestamp |-> 2],
    [userPseudoId |-> <<"u","s","e","r","2">>, sessionSource |-> <<"n","a","v","e","r">>, sessionMedium |-> <<"o","r","g","a","n","i","c">>,
     pagePath |-> <<"/","s","k","i","l","l","-","g","u","i","d","e","/","o","n","e","-","c","l","i","c","k">>, funnel_stage |-> "AWARENESS",
     eventName |-> "session_start", page_category |-> "support", eventTimestamp |-> 3],
    [userPseudoId |-> <<"u","s","e","r","2">>, sessionSource |-> <<"n","a","v","e","r">>, sessionMedium |-> <<"o","r","g","a","n","i","c">>,
     pagePath |-> <<"/","p","r","o","v","i","d","e","r","-","j","o","i","n">>, funnel_stage |-> "CONVERSION",
     eventName |-> conversion_event_name, page_category |-> "authentication",
     eventTimestamp |-> 4] >>

\* the frames a pattern analysis run starts from: no rows, the sample, and
\* cohorts one visitor short of a segment
PatternFrames ==
    {<<>>, sample_classified}
    \cup {Cohort(journey, min_segment_users - 1) :
             journey \in {ContentToService, PaidHighIntent, MultiSession,
                          HighEngagement}}

PatternInit ==
    /\ result_df \in PatternFrames
    /\ unstable_sort \in BOOLEAN
    /\ loaded = 0
    /\ events_df = <<>>
    /\ first_df = <<>>
    /\ calls = 0
    /\ report = <<>>
    /\ call = <<>>
    /\ ret = <<>>

\* one more visitor's classified events reach the frame, with the columns the
\* frame has
AddVisitor ==
    /\ report = <<>>
    /\ loaded < MaxVisitors
    /\ \E journey \in VisitorJourneys,
          users \in {{result_df[i].userPseudoId : i \in 1..Len(result_df)}} :
          \E rows \in {VisitBy(VisitorId(Cardinality(users) + 1), journey)} :
              result_df' =
                  result_df \o
                      [i \in 1..Len(rows) |->
                          IF result_df = <<>> THEN rows[i]
                          ELSE [c \in DOMAIN result_df[1] |-> rows[i][c]]]
    /\ loaded' = loaded + 1
    /\ UNCHANGED <<events_df, first_df, calls, unstable_sort, report, call, ret>>

\* the analysis `op` is the k-th to run, and hands back `result`
Analyse(k, op, result) ==
    /\ Len(report) = k - 1
    /\ report' = Append(report, [op |-> op] @@ result)
    /\ UNCHANGED <<events_df, loaded, result_df, first_df, calls, unstable_sort,
                   call, ret>>

HighValueSegments ==
    Analyse(1, "_identify_high_value_segments",
            _identify_high_value_segments(result_df, traffic_groups))

DropOffPoints ==
    Analyse(2, "_identify_drop_off_points",
            _identify_drop_off_points(result_df, unstable_sort))

PatternNext == AddVisitor \/ HighValueSegments \/ DropOffPoints

SpecPatterns == PatternInit /\ [][PatternNext]_vars

---------------------------------------------------------------------------
(* The optimisation lists: generate_conversion_summary computes its
   opportunity list from the stage, source and content aggregates, and
   analyze_conversion_patterns derives its insights from its pattern results.
   Both are functions of those results alone, which are drawn from the sets
   below. *)

\* what calculate_stage_conversions can hand over: the error record, a funnel
\* with a step below 50, and one whose lowest steps are exactly 50
StageSummaries == {
    [error |-> "no classified data"],
    [total_users |-> 10,
     step_conversions |-> [awareness_to_interest |-> Pct(60),
                           interest_to_consideration |-> Pct(40),
                           consideration_to_conversion |-> Pct(40)]],
    [total_users |-> 10,
     step_conversions |-> [awareness_to_interest |-> Pct(50),
                           interest_to_consideration |-> Pct(100),
                           consideration_to_conversion |-> Pct(50)]] }

\* a source frame of n sources that convert above 15 percent with fewer than
\* 100 users, one at exactly 15 percent and one with exactly 100 users
SourceSummary(n) ==
    [k \in 1..n |->
        [source_medium |-> <<"s">> \o VisitorId(k), conversion_rate |-> Pct(20),
         total_users |-> 5]]
    \o << [source_medium |-> <<"n","a","v","e","r"," ","/"," ","o","r","g","a","n","i","c">>, conversion_rate |-> Pct(15),
           total_users |-> 5],
          [source_medium |-> <<"g","o","o","g","l","e"," ","/"," ","c","p","c">>, conversion_rate |-> Pct(20),
           total_users |-> 100] >>

\* what calculate_source_conversions can hand over
SourceSummaries == {<<>>, SourceSummary(0), SourceSummary(9), SourceSummary(11)}

\* what calculate_content_conversions can hand over: no page; or pages of which
\* the first alone converts below 5 percent with more than 50 users
ContentSummaries == {
    <<>>,
    << [page_path |-> <<"/","p","o","s","t","s","/","7","3","9">>, conversion_rate |-> Pct(4), total_users |-> 51],
       [page_path |-> <<"/","p","o","s","t","s","/","5">>, conversion_rate |-> Pct(5), total_users |-> 51],
       [page_path |-> <<"/","p","o","s","t","s","/","6">>, conversion_rate |-> Pct(4), total_users |-> 50] >> }

\* what _analyze_source_page_patterns can hand over
SourcePagePatterns == {
    <<>>,
    << [traffic_group |-> "paid_search",
        best_combination |-> [combination |-> "content + homepage", users |-> 5,
                              conversions |-> 1, conversion_rate |-> Pct(20)],
        total_combinations |-> 1, group_users |-> 5] >> }

\* what _analyze_user_journey_patterns can hand over
JourneyPatterns == {
    [error |-> "no page sequences"],
    [common_paths |-> <<>>],
    [common_paths |->
        << [path |-> "/ -> /posts/739 -> /providers", users |-> 10,
            conversions |-> 2, conversion_rate |-> Pct(20)] >>] }

\* what _analyze_engagement_patterns can hand over: no category; categories
\* at the thresholds; two categories above them, the second converting best
EngagementPatterns == {
    [page_category_engagement |-> <<>>],
    [page_category_engagement |->
        << [category |-> "homepage", total_users |-> 51, conversion_rate |-> Pct(20)],
           [category |-> "content", total_users |-> 50, conversion_rate |-> Pct(30)] >>],
    [page_category_engagement |->
        << [category |-> "homepage", total_users |-> 51, conversion_rate |-> Pct(21)],
           [category |-> "content", total_users |-> 60, conversion_rate |-> Pct(30)] >>] }

\* what _identify_high_value_segments can hand over
HighValueSegmentLists ==
    {<<>>}
    \cup {_identify_high_value_segments(
              Cohort(journey, min_segment_users), traffic_groups).value :
             journey \in {PaidHighIntent, MultiSession}}

\* what _identify_drop_off_points can hand over
DropOffLists ==
    {<<>>}
    \cup {_identify_drop_off_points(classified_df, FALSE).value :
             classified_df \in {sample_classified,
                                Cohort(ContentToService, 2)
                                    \o VisitBy(VisitorId(3), MultiSession)}}

InsightInit ==
    /\ report = <<>>
    /\ events_df = <<>>
    /\ loaded = 0
    /\ result_df = <<>>
    /\ first_df = <<>>
    /\ calls = 0
    /\ unstable_sort = FALSE
    /\ call = <<>>
    /\ ret = <<>>

\* generate_conversion_summary, step 6
OptimizationOpportunities ==
    \E stage_conversions \in StageSummaries,
       source_conversions \in SourceSummaries,
       content_conversions \in ContentSummaries :
        Analyse(1, "_identify_optimization_opportunities",
                [stage_conversions |-> stage_conversions,
                 source_conversions |-> source_conversions,
                 content_conversions |-> content_conversions]
                @@ Returns(_identify_optimization_opportunities(
                               stage_conversions, source_conversions,
                               content_conversions)))

\* analyze_conversion_patterns: patterns['optimization_insights'] = ...
OptimizationInsights ==
    \E patterns \in
           [source_page_combinations : SourcePagePatterns,
            journey_patterns : JourneyPatterns,
            engagement_patterns : EngagementPatterns,
            high_value_segments : HighValueSegmentLists,
            drop_off_points : DropOffLists] :
        Analyse(2, "_generate_optimization_insights",
                [patterns |-> patterns]
                @@ Returns(_generate_optimization_insights(patterns)))

InsightNext == OptimizationOpportunities \/ OptimizationInsights

SpecInsights == InsightInit /\ [][InsightNext]_vars

---------------------------------------------------------------------------
(* The session-based analyses: ConversionAnalyzer.analyze and              *)
(* RealisticFunnelAnalyzer.analyze_funnel, each called once on the two     *)
(* reports GA4 answered with                                               *)

\* rows of one GA4 report
MaxReportRows == 2

\* a row of the traffic report
TrafficRow(source, medium, users, sessions, page_views) ==
    [sessionSource |-> source, sessionMedium |-> medium, activeUsers |-> users,
     sessions |-> sessions, screenPageViews |-> page_views]

\* traffic rows: no session, few sessions, sessions at the reliability
\* thresholds
TrafficRows == {
    TrafficRow(<<"g","o","o","g","l","e">>, <<"c","p","c">>, 1, 0, 0),
    TrafficRow(<<"g","o","o","g","l","e">>, <<"o","r","g","a","n","i","c">>, 5, 8, 20),
    TrafficRow(<<"n","a","v","e","r">>, <<"o","r","g","a","n","i","c">>, 25, 30, 90),
    TrafficRow(<<"(","d","i","r","e","c","t",")">>, <<"(","n","o","n","e",")">>, 80, 100, 400) }

\* a row of the report of the sign-up event
ConversionRow(source, medium, event_count) ==
    [sessionSource |-> source, sessionMedium |-> medium, eventCount |-> event_count]

ConversionRows == {
    ConversionRow(<<"g","o","o","g","l","e">>, <<"c","p","c">>, 1),
    ConversionRow(<<"n","a","v","e","r">>, <<"o","r","g","a","n","i","c">>, 9),
    ConversionRow(<<"(","d","i","r","e","c","t",")">>, <<"(","n","o","n","e",")">>, 20),
    ConversionRow(<<"(","d","i","r","e","c","t",")">>, <<"(","n","o","n","e",")">>, 60) }

\* the reports of at most n rows over the given rows
RECURSIVE Reports(_, _)
Reports(rows, n) ==
    IF n = 0 THEN {<<>>}
    ELSE Reports(rows, n - 1)
         \cup {Append(report_rows, row) :
                  report_rows \in Reports(rows, n - 1), row \in rows}

SessionCalls ==
    [fn : {"analyze", "analyze_funnel"},
     traffic_data : Reports(TrafficRows, MaxReportRows),
     conversion_data : Reports(ConversionRows, MaxReportRows)]

SessionInit ==
    /\ call \in SessionCalls
    /\ unstable_sort \in BOOLEAN
    /\ ret = <<>>
    /\ events_df = <<>>
    /\ loaded = 0
    /\ result_df = <<>>
    /\ first_df = <<>>
    /\ calls = 0
    /\ report = <<>>

\* ConversionAnalyzer.analyze
Analyze ==
    /\ call.fn = "analyze"
    /\ ret = <<>>
    /\ ret' = <<analyze(call.traffic_data, call.conversion_data, unstable_sort)>>
    /\ UNCHANGED <<events_df, loaded, result_df, first_df, calls, unstable_sort,
                   report, call>>

\* RealisticFunnelAnalyzer.analyze_funnel
AnalyzeFunnel ==
    /\ call.fn = "analyze_funnel"
    /\ ret = <<>>
    /\ ret' = <<analyze_funnel(call.traffic_data, call.conversion_data,
                               unstable_sort)>>
    /\ UNCHANGED <<events_df, loaded, result_df, first_df, calls, unstable_sort,
                   report, call>>

SessionNext == Analyze \/ AnalyzeFunnel

SpecSessions == SessionInit /\ [][SessionNext]_vars

---------------------------------------------------------------------------
(* What the claims speak about *)

Stages == [k \in 1..Len(stage_rules) |-> stage_rules[k].stage]

\* the elements of a sequence
Range(s) == {s[i] : i \in 1..Len(s)}

\* the frame has been classified at least once
Classified == calls >= 1

\* every user's journey as the classifier sees it: the user's rows, with their
\* labels, in the order sort_values leaves them in
Journeys ==
    LET groups == groupby_user(with_index(events_df))
    IN [g \in 1..Len(groups) |-> sort_values(groups[g], unstable_sort)]

\* the events in output order, each with the journey that is its context
Timeline ==
    LET journeys == Journeys
        RECURSIVE flat(_)
        flat(g) ==
            IF g > Len(journeys) THEN <<>>
            ELSE [i \in 1..Len(journeys[g]) |->
                    [event |-> journeys[g][i], context |-> journeys[g]]]
                 \o flat(g + 1)
    IN flat(1)

\* Scores[p][k]: the score of the event at output position p for the k-th stage
Scores ==
    LET timeline == Timeline
    IN [p \in 1..Len(timeline) |->
           [k \in 1..Len(Stages) |->
               conditions(Stages[k], timeline[p].event, timeline[p].context)]]

\* the largest of the four scores sc
MaxScore(sc) ==
    CHOOSE m \in Range(sc) : \A k \in 1..Len(sc) : sc[k] <= m

\* the input columns of a row
EventOf(row) ==
    [userPseudoId |-> row.userPseudoId, eventName |-> row.eventName,
     pagePath |-> row.pagePath, sessionSource |-> row.sessionSource,
     eventTimestamp |-> row.eventTimestamp]

Count(df, e) == Cardinality({i \in 1..Len(df) : EventOf(df[i]) = e})

UsersOf(df) == {df[i].userPseudoId : i \in 1..Len(df)}

---------------------------------------------------------------------------
(* C1 *)

---------------------------------------------------------------------------
(* C2 *)

\* C2: every classified event has funnel_stage among the four stages and
\* UNKNOWN, and stage_confidence between 0 and 1.0
C2_StageAndConfidenceRange ==
    Classified =>
        \A p \in 1..Len(result_df) :
            /\ result_df[p].funnel_stage \in
                   {"AWARENESS", "INTEREST", "CONSIDERATION", "CONVERSION", "UNKNOWN"}
            /\ result_df[p].stage_confidence >= 0
            /\ result_df[p].stage_confidence <= 100

\* a classified frame with an event whose AWARENESS signals sum to more than 1.0
C2_Witness ==
    /\ Classified
    /\ LET timeline == Timeline
       IN \E p \in 1..Len(result_df) :
           /\ _awareness_signals(timeline[p].event, timeline[p].context) > 100
           /\ result_df[p].funnel_stage = "AWARENESS"
           /\ result_df[p].stage_confidence = 100

---------------------------------------------------------------------------
(* C3 *)

\* C3: the output has as many rows as the input, and every event occurs in
\* the output as often as in the input
C3_OneOutputPerInput ==
    Classified =>
        /\ Len(result_df) = Len(events_df)
        /\ \A i \in 1..Len(events_df) :
            Count(result_df, EventOf(events_df[i]))
                = Count(events_df, EventOf(events_df[i]))
        /\ \A p \in 1..Len(result_df) :
            Count(events_df, EventOf(result_df[p]))
                = Count(result_df, EventOf(result_df[p]))

\* a classified frame of two users that holds the same event twice
C3_Witness ==
    /\ Classified
    /\ Cardinality(UsersOf(events_df)) >= 2
    /\ \E i \in 1..Len(events_df) : Count(events_df, EventOf(events_df[i])) = 2
    /\ Len(result_df) = Len(events_df)

---------------------------------------------------------------------------
(* C4 *)

\* C4: for every event and every stage, the stage's scoring function returns
\* a value between 0 and 1.0
C4_ScoresClamped ==
    Classified =>
        LET score == Scores
        IN \A p \in 1..Len(score) : \A k \in 1..Len(Stages) :
               score[p][k] >= 0 /\ score[p][k] <= 100

\* an event for which all six CONSIDERATION signals fire: their sum is 2.0
C4_Witness ==
    /\ Classified
    /\ LET timeline == Timeline
       IN \E p \in 1..Len(timeline) :
           /\ _consideration_signals(timeline[p].event, timeline[p].context) = 200
           /\ _consideration_conditions(timeline[p].event, timeline[p].context) = 100

---------------------------------------------------------------------------
(* C5 *)

\* C5: the assigned confidence is the maximum of the four stage scores, and
\* when it is positive the assigned stage is the first stage, in the order
\* AWARENESS, INTEREST, CONSIDERATION, CONVERSION, whose score is the maximum
C5_FirstMaximalStage ==
    Classified =>
        LET score == Scores
        IN \A p \in 1..Len(result_df) :
               LET best == MaxScore(score[p])
               IN /\ result_df[p].stage_confidence = best
                  /\ best > 0 =>
                      \E k \in 1..Len(Stages) :
                          /\ result_df[p].funnel_stage = Stages[k]
                          /\ score[p][k] = best
                          /\ \A j \in 1..(k - 1) : score[p][j] < best

\* an event for which a later stage ties with the winner, and an event that a
\* later stage wins with the strictly higher score
C5_Witness ==
    /\ Classified
    /\ LET score == Scores
       IN /\ \E p \in 1..Len(result_df) : \E k, j \in 1..Len(Stages) :
               /\ k < j
               /\ result_df[p].funnel_stage = Stages[k]
               /\ score[p][j] = score[p][k]
          /\ \E p \in 1..Len(result_df) : \E k, j \in 1..Len(Stages) :
               /\ k < j
               /\ result_df[p].funnel_stage = Stages[j]
               /\ score[p][k] > 0
               /\ score[p][k] < score[p][j]

---------------------------------------------------------------------------
(* C6 *)

\* C6: an event is UNKNOWN exactly when all four stage scores are 0, and
\* exactly when its stage_confidence is 0
C6_UnknownIffZero ==
    Classified =>
        LET score == Scores
        IN \A p \in 1..Len(result_df) :
               /\ result_df[p].funnel_stage = "UNKNOWN"
                      <=> \A k \in 1..Len(Stages) : score[p][k] = 0
               /\ result_df[p].funnel_stage = "UNKNOWN"
                      <=> result_df[p].stage_confidence = 0

\* the lowest-scoring event of the model: a later event from (direct) on a page
\* no rule names, with three stage scores at 0
C6_Witness ==
    /\ Classified
    /\ LET score == Scores
       IN \E p \in 1..Len(result_df) :
           /\ Cardinality({k \in 1..Len(Stages) : score[p][k] = 0}) = 3
           /\ result_df[p].funnel_stage # "UNKNOWN"
           /\ result_df[p].stage_confidence > 0

---------------------------------------------------------------------------
(* C7 *)

\* no user has two events with the same timestamp
DistinctTimestamps(df) ==
    \A i, j \in 1..Len(df) :
        (i < j /\ df[i].userPseudoId = df[j].userPseudoId)
            => df[i].eventTimestamp # df[j].eventTimestamp

\* the rows of df in the order f
Reordered(df, f) == [i \in 1..Len(df) |-> df[f[i]]]

\* C7: when no user has two events with the same timestamp, the frame with
\* its rows in any other order is classified the same: every event gets the
\* same funnel_stage and stage_confidence
C7_RowOrderIrrelevant ==
    (Classified /\ DistinctTimestamps(events_df)) =>
        \A f \in Permutations(1..Len(events_df)) :
            Range(classify_user_events(Reordered(events_df, f), page_categories,
                                       unstable_sort).returned)
                = Range(result_df)

---------------------------------------------------------------------------
(* C8 *)

---------------------------------------------------------------------------
(* C9 *)

RowsOfUser(df, u) == SelectSeq(df, LAMBDA r : r.userPseudoId = u)

\* C9: the classified events of each user are what classify_user_events
\* returns for that user's events alone
C9_NoCrossUserInteraction ==
    Classified =>
        \A u \in UsersOf(events_df) :
            RowsOfUser(result_df, u)
                = classify_user_events(RowsOfUser(events_df, u), page_categories,
                                       unstable_sort).returned

\* a classified frame in which a session_start of one user comes before an
\* engagement event of another user who has no session-start event
C9_Witness ==
    /\ Classified
    /\ \E i, j \in 1..Len(events_df) :
        /\ i < j
        /\ events_df[i].userPseudoId # events_df[j].userPseudoId
        /\ events_df[i].eventName = "session_start"
        /\ events_df[j].eventName \in {"visit_blog", "user_engagement"}
        /\ \A k \in 1..Len(events_df) :
            events_df[k].userPseudoId = events_df[j].userPseudoId
                => events_df[k].eventName \notin {"session_start", "first_visit"}

---------------------------------------------------------------------------
(* C10 *)

\* C10: in the output the rows of one user are contiguous, and of two rows of
\* the same user the first has the smaller or equal timestamp
C10_GroupedAndTimeOrdered ==
    Classified =>
        \A i, j \in 1..Len(result_df) :
            (i < j /\ result_df[i].userPseudoId = result_df[j].userPseudoId) =>
                /\ result_df[i].eventTimestamp <= result_df[j].eventTimestamp
                /\ \A k \in i..j :
                    result_df[k].userPseudoId = result_df[i].userPseudoId

\* a classified frame whose input had a user's rows apart and a user's rows
\* out of timestamp order
C10_Witness ==
    /\ Classified
    /\ \E i, j \in 1..Len(events_df) : \E k \in i..j :
        /\ events_df[i].userPseudoId = events_df[j].userPseudoId
        /\ events_df[k].userPseudoId # events_df[i].userPseudoId
    /\ \E i, j \in 1..Len(events_df) :
        /\ i < j
        /\ events_df[i].userPseudoId = events_df[j].userPseudoId
        /\ events_df[i].eventTimestamp > events_df[j].eventTimestamp

---------------------------------------------------------------------------
(* C11 *)

\* the helper call has returned
Returned == ret # <<>>

\* a get_page_category call on the table {"content": ["/posts/*"]}
ContentTableCall ==
    /\ Returned
    /\ call.fn = "get_page_category"
    /\ call.table = content_table

\* C11: with the table {"content": ["/posts/*"]}, get_page_category returns
\* "content" for /posts/123, "content" for /posts and "other" for /other
C11_ContentTableExample ==
    ContentTableCall =>
        /\ call.page_path = <<"/","p","o","s","t","s","/","1","2","3">> => ret[1] = "content"
        /\ call.page_path = <<"/","p","o","s","t","s">> => ret[1] = "content"
        /\ call.page_path = <<"/","o","t","h","e","r">> => ret[1] = "other"

\* C11 as amended: with the table {"content": ["/posts/*"]}, get_page_category
\* returns "content" for /posts/123, "other" for /posts (the prefix that is
\* matched is "/posts/", with its slash) and "other" for /other
C11_ContentTableExampleAmended ==
    ContentTableCall =>
        /\ call.page_path = <<"/","p","o","s","t","s","/","1","2","3">> => ret[1] = "content"
        /\ call.page_path = <<"/","p","o","s","t","s">> => ret[1] = "other"
        /\ call.page_path = <<"/","o","t","h","e","r">> => ret[1] = "other"

\* the lookup of /posts in the table {"content": ["/posts/*"]} has returned
C11_Witness ==
    /\ ContentTableCall
    /\ call.page_path = <<"/","p","o","s","t","s">>
    /\ ret = <<"other">>

---------------------------------------------------------------------------
(* C12 *)

\* pattern matches input: by prefix when it ends with '*', by equality otherwise
PatternMatches(pattern, input) ==
    IF pattern # <<>> /\ pattern[Len(pattern)] = "*"
    THEN /\ Len(input) >= Len(pattern) - 1
         /\ SubSeq(input, 1, Len(pattern) - 1) = SubSeq(pattern, 1, Len(pattern) - 1)
    ELSE input = pattern

\* the name of entry c of a pattern table
NameOf(table, c) ==
    IF "category" \in DOMAIN table[c] THEN table[c].category ELSE table[c].group

\* the positions <<c, p>> of the patterns of a table that match input
Hits(table, input) ==
    {cp \in UNION {{<<c, p>> : p \in 1..Len(table[c].patterns)} : c \in 1..Len(table)} :
        PatternMatches(table[cp[1]].patterns[cp[2]], input)}

\* result is the name of the first hit in iteration order, and "other" exactly
\* when there is no hit
FirstMatchWins(table, input, result) ==
    LET hits == Hits(table, input)
    IN /\ result = "other" <=> hits = {}
       /\ hits # {} =>
             \E h \in hits :
                /\ \A o \in hits : h[1] < o[1] \/ (h[1] = o[1] /\ h[2] <= o[2])
                /\ result = NameOf(table, h[1])

\* C12: get_page_category and get_traffic_group return the name of the first
\* pattern in iteration order that matches the input, and "other" exactly
\* when no pattern matches
C12_FirstMatchingPatternWins ==
    Returned =>
        /\ call.fn = "get_page_category" =>
              FirstMatchWins(call.table, call.page_path, ret[1])
        /\ call.fn = "get_traffic_group" =>
              FirstMatchWins(call.table, call.source \o <<"/">> \o call.medium, ret[1])

\* a source/medium that patterns of two groups match: blog/sns is a literal
\* pattern of social_media and matches blog/* of the later group referral
C12_Witness ==
    /\ Returned
    /\ call.fn = "get_traffic_group"
    /\ LET hits == Hits(call.table, call.source \o <<"/">> \o call.medium)
       IN \E h, o \in hits : h[1] < o[1]
    /\ ret = <<"social_media">>

---------------------------------------------------------------------------
(* C13 *)

\* calculate_stage_conversions has run on a classified frame with rows, and
\* returned
StageConversionsReturned ==
    /\ Len(report) >= 1
    /\ report[1].ok
    /\ result_df # <<>>

\* the users with at least one event of the frame classified `stage`
ReachedUsers(df, stage) ==
    {df[i].userPseudoId : i \in {j \in 1..Len(df) : df[j].funnel_stage = stage}}

\* C13: each stage's reached-count is the number of distinct users with at
\* least one classified event of that stage, each stage counted on its own
C13_ReachedCountsPerStage ==
    StageConversionsReturned =>
        LET stage_counts == report[1].value.stage_counts
        IN /\ stage_counts.awareness
                 = Cardinality(ReachedUsers(result_df, "AWARENESS"))
           /\ stage_counts.interest
                 = Cardinality(ReachedUsers(result_df, "INTEREST"))
           /\ stage_counts.consideration
                 = Cardinality(ReachedUsers(result_df, "CONSIDERATION"))
           /\ stage_counts.conversion
                 = Cardinality(ReachedUsers(result_df, "CONVERSION"))

\* one user is counted in two stages, and another is counted for CONVERSION
\* without being counted for any earlier stage
C13_Witness ==
    /\ StageConversionsReturned
    /\ \E u \in UsersOf(result_df) :
          /\ u \in ReachedUsers(result_df, "AWARENESS")
          /\ u \in ReachedUsers(result_df, "CONSIDERATION")
    /\ \E u \in ReachedUsers(result_df, "CONVERSION") :
          /\ u \notin ReachedUsers(result_df, "AWARENESS")
          /\ u \notin ReachedUsers(result_df, "INTEREST")
          /\ u \notin ReachedUsers(result_df, "CONSIDERATION")
    /\ report[1].value.stage_counts.conversion >= 1

---------------------------------------------------------------------------
(* C14 *)

\* rate is a / b * 100, to the three decimals rates are kept to
IsPercent(rate, a, b) ==
    /\ rate * b <= a * 100 * 1000
    /\ a * 100 * 1000 < (rate + 1) * b

\* rate is the step conversion from a stage `earlier` users reached to a stage
\* `later` users reached
IsStepConversion(rate, later, earlier) ==
    IF earlier = 0 THEN rate = 0 ELSE IsPercent(rate, later, earlier)

\* C14: each step conversion is count(later stage) / count(earlier stage) x 100,
\* and 0 when the earlier count is 0; overall_conversion is count(CONVERSION) /
\* total distinct users x 100
C14_StepAndOverallConversion ==
    StageConversionsReturned =>
        LET value == report[1].value
            count(stage) == Cardinality(ReachedUsers(result_df, stage))
        IN /\ IsStepConversion(value.step_conversions.awareness_to_interest,
                               count("INTEREST"), count("AWARENESS"))
           /\ IsStepConversion(value.step_conversions.interest_to_consideration,
                               count("CONSIDERATION"), count("INTEREST"))
           /\ IsStepConversion(value.step_conversions.consideration_to_conversion,
                               count("CONVERSION"), count("CONSIDERATION"))
           /\ IsPercent(value.overall_conversion, count("CONVERSION"),
                        Cardinality(UsersOf(result_df)))

\* half of the users who reached AWARENESS reached INTEREST, and nobody reached
\* CONSIDERATION while somebody converted: that step is 0
C14_Witness ==
    /\ StageConversionsReturned
    /\ report[1].value.stage_counts.awareness = 2
    /\ report[1].value.step_conversions.awareness_to_interest = Pct(50)
    /\ report[1].value.stage_counts.consideration = 0
    /\ report[1].value.stage_counts.conversion >= 1
    /\ report[1].value.step_conversions.consideration_to_conversion = 0
    /\ report[1].value.overall_conversion = Pct(50)

---------------------------------------------------------------------------
(* C15 *)

\* C15: the four stage rates, the three step conversions and
\* overall_conversion all lie in [0, 100]
C15_RatesWithinBounds ==
    StageConversionsReturned =>
        LET value == report[1].value
            rates == {value.stage_rates.awareness_rate,
                      value.stage_rates.interest_rate,
                      value.stage_rates.consideration_rate,
                      value.stage_rates.conversion_rate,
                      value.step_conversions.awareness_to_interest,
                      value.step_conversions.interest_to_consideration,
                      value.step_conversions.consideration_to_conversion,
                      value.overall_conversion}
        IN \A rate \in rates : rate >= 0 /\ rate <= Pct(100)

---------------------------------------------------------------------------
(* C16 *)

\* the last row of user u in the classified frame
LastEventOf(df, u) ==
    df[CHOOSE i \in 1..Len(df) :
          /\ df[i].userPseudoId = u
          /\ \A j \in (i + 1)..Len(df) : df[j].userPseudoId # u]

\* C16: for the two-user input (user1: session_start from google, page_view
\* on /posts/5, the conversion event; user2: session_start only), user1's last
\* event is CONVERSION with confidence 1.0, the reached-counts are AWARENESS 2,
\* INTEREST 1, CONSIDERATION 0, CONVERSION 1, and overall_conversion is 50.0
C16_TwoUserScenario ==
    (/\ events_df \in {TwoUserScenario, TwoUserScenarioShuffled}
     /\ Len(report) >= 1) =>
        /\ report[1].ok
        /\ LastEventOf(result_df, "user1").eventName = conversion_event_name
        /\ LastEventOf(result_df, "user1").funnel_stage = "CONVERSION"
        /\ LastEventOf(result_df, "user1").stage_confidence = 100
        /\ report[1].value.stage_counts
               = [awareness |-> 2, interest |-> 1, consideration |-> 0,
                  conversion |-> 1]
        /\ report[1].value.overall_conversion = Pct(50)

\* the two-user input, its rows in another order than the events happened,
\* has been classified and aggregated
C16_Witness ==
    /\ events_df = TwoUserScenarioShuffled
    /\ Len(report) >= 1
    /\ Len(result_df) = 4
    /\ report[1].value.total_users = 2

---------------------------------------------------------------------------
(* C17 *)

\* C17: with no user in the frame, get_user_funnel_progression and
\* analyze_stage_transitions raise nothing and report rates of 0
C17_EmptyPopulationRatesAreZero ==
    (Len(report) >= 7 /\ UsersOf(result_df) = {}) =>
        /\ report[6].ok
        /\ \A rate \in DOMAIN report[6].value.printed :
              report[6].value.printed[rate] = 0
        /\ report[7].ok
        /\ \A rate \in DOMAIN report[7].value.conversion_rates :
              report[7].value.conversion_rates[rate] = 0

---------------------------------------------------------------------------
(* C18 *)

\* C18: given zero events, classify_user_events returns the empty frame, and
\* calculate_stage_conversions, calculate_source_conversions,
\* calculate_content_conversions, calculate_device_conversions and
\* calculate_time_based_conversions raise nothing and return an empty or
\* default aggregate
C18_ZeroEventsEmptyAggregates ==
    (events_df = <<>> /\ Len(report) >= 5) =>
        /\ result_df = <<>>
        /\ \A k \in 1..5 : report[k].ok
        /\ "error" \in DOMAIN report[1].value
        /\ report[2].value = <<>>
        /\ report[3].value = <<>>
        /\ report[4].value = <<>>
        /\ report[5].value
               \in {<<>>, [hourly_conversions |-> <<>>, daily_conversions |-> <<>>]}

---------------------------------------------------------------------------
(* C19 *)

\* the rows of user u that have the user's smallest timestamp
EarliestRows(df, u) ==
    {i \in 1..Len(df) :
        /\ df[i].userPseudoId = u
        /\ \A j \in 1..Len(df) :
              df[j].userPseudoId = u => df[i].eventTimestamp <= df[j].eventTimestamp}

\* every user has one chronologically earliest event
UniqueEarliest(df) ==
    \A u \in UsersOf(df) : Cardinality(EarliestRows(df, u)) = 1

\* the (source, medium) of user u's chronologically earliest event
FirstSeen(df, u) ==
    LET i == CHOOSE i \in EarliestRows(df, u) : TRUE
    IN <<df[i].sessionSource, df[i].sessionMedium>>

\* source_df counts every user of df in the row of the user's first-seen
\* (source, medium), and as a conversion of that row when the user has a
\* CONVERSION-stage event
AttributesToEarliest(df, source_df) ==
    /\ \A u \in UsersOf(df) :
          \E k \in 1..Len(source_df) :
              <<source_df[k].source, source_df[k].medium>> = FirstSeen(df, u)
    /\ \A k \in 1..Len(source_df) :
          LET users == {u \in UsersOf(df) :
                           FirstSeen(df, u) = <<source_df[k].source, source_df[k].medium>>}
          IN /\ source_df[k].total_users = Cardinality(users)
             /\ source_df[k].conversions
                   = Cardinality(users \cap ReachedUsers(df, "CONVERSION"))

\* C19: for the classified frame with its rows in any order,
\* calculate_source_conversions counts each user under the (source, medium) of
\* the user's chronologically earliest event, and as a conversion of that
\* group when the user has a CONVERSION-stage event
C19_FirstSeenSourceAnyRowOrder ==
    (/\ Len(report) >= 2
     /\ report[2].ok
     /\ UniqueEarliest(result_df)) =>
        \A f \in Permutations(1..Len(result_df)) :
            LET df == Reordered(result_df, f)
                source_df == calculate_source_conversions(df, traffic_groups,
                                                          unstable_sort)
            IN source_df.ok /\ AttributesToEarliest(df, source_df.value)

---------------------------------------------------------------------------
(* C20 *)

\* the traffic-quality tiers in the order they are tested: the least rate (in
\* percent) and the least volume of each
Tiers == <<
    [tier |-> "Premium", rate |-> 20, volume |-> 50],
    [tier |-> "High", rate |-> 10, volume |-> 100],
    [tier |-> "Medium", rate |-> 5, volume |-> 200],
    [tier |-> "Low", rate |-> 2, volume |-> 0] >>

\* C20: _assess_traffic_quality returns the first tier, in the order Premium,
\* High, Medium, Low, whose condition holds, and Poor when none holds; it
\* returns Poor exactly when the rate is below 2
C20_FirstTierWins ==
    (Returned /\ call.fn = "_assess_traffic_quality") =>
        LET holds == {k \in 1..Len(Tiers) :
                         /\ call.conversion_rate >= Pct(Tiers[k].rate)
                         /\ call.volume >= Tiers[k].volume}
        IN /\ \A k \in holds :
                 (\A j \in holds : k <= j) => ret[1] = Tiers[k].tier
           /\ holds = {} => ret[1] = "Poor"
           /\ ret[1] = "Poor" <=> call.conversion_rate < Pct(2)

\* a rate of exactly 20 with a volume of 49: the Premium, High and Medium
\* conditions fail on the volume and Low is the first that holds
C20_Witness ==
    /\ Returned
    /\ call.fn = "_assess_traffic_quality"
    /\ call.conversion_rate = Pct(20)
    /\ call.volume = 49
    /\ ret = <<"Low">>

---------------------------------------------------------------------------
(* C21 *)

\* calculate_content_conversions has run on the classified frame and
\* returned a frame with at least one page
ContentConversionsReturned ==
    /\ Len(report) >= 3
    /\ report[3].ok
    /\ report[3].value # <<>>

\* the visitors of page_path with a CONVERSION-stage event that is not earlier
\* than one of their visits of the page (the visit itself included)
LaterConverted(df, page_path) ==
    {df[i].userPseudoId :
        i \in {v \in 1..Len(df) :
                  /\ df[v].pagePath = page_path
                  /\ \E j \in 1..Len(df) :
                        /\ df[j].userPseudoId = df[v].userPseudoId
                        /\ df[j].funnel_stage = "CONVERSION"
                        /\ df[j].eventTimestamp >= df[v].eventTimestamp}}

\* C21: a content page's conversion count is the number of its distinct
\* visitors who have a CONVERSION-stage event after visiting the page, whether
\* or not the visit itself was classified CONVERSION
C21_ContentConversionsAreLater ==
    ContentConversionsReturned =>
        \A k \in 1..Len(report[3].value) :
            report[3].value[k].conversions
                = Cardinality(LaterConverted(result_df, report[3].value[k].page_path))

---------------------------------------------------------------------------
(* C22 *)

\* _identify_high_value_segments has run on the frame
SegmentsAnalysed ==
    /\ Len(report) >= 1
    /\ report[1].op = "_identify_high_value_segments"

\* the users of the frame who satisfy the predicate of the named segment
Qualifying(df, segment_name) ==
    LET events(u) == SelectSeq(df, LAMBDA row : row.userPseudoId = u)
        stages(u) == {df[i].funnel_stage :
                         i \in {j \in 1..Len(df) : df[j].userPseudoId = u}}
        sessions(u) ==
            IF has_column(df, "sessionId")
            THEN {df[i].sessionId : i \in {j \in 1..Len(df) : df[j].userPseudoId = u}}
            ELSE {"one"}
    IN {u \in UsersOf(df) :
           CASE segment_name = "High Engagement + Content Lovers" ->
                    Len(events(u)) >= 10 /\ "INTEREST" \in stages(u)
             [] segment_name = "Multi-Session Explorers" ->
                    Cardinality(sessions(u)) >= 2
             [] segment_name = "Paid Traffic High Intent" ->
                    /\ get_traffic_group(traffic_groups, events(u)[1].sessionSource,
                                         events(u)[1].sessionMedium) = "paid_search"
                    /\ Cardinality(stages(u) \ {"UNKNOWN"}) >= 3
             [] segment_name = "Content to Service Path" ->
                    {"INTEREST", "CONSIDERATION"} \subseteq stages(u)}

\* the named segment is in the output of _identify_high_value_segments
Included(segment_name) ==
    /\ report[1].ok
    /\ \E k \in 1..Len(report[1].value) :
          report[1].value[k].segment_name = segment_name

\* C22: a named segment is in the output of _identify_high_value_segments if
\* and only if at least 20 users satisfy its predicate (absent with 19,
\* present with exactly 20)
C22_SegmentIffTwentyUsers ==
    SegmentsAnalysed =>
        \A d \in 1..Len(segment_definitions) :
            Included(segment_definitions[d])
                <=> Cardinality(Qualifying(result_df, segment_definitions[d])) >= 20

\* one segment has 19 qualifying users and is absent, another has exactly 20
\* and is present
C22_Witness ==
    /\ SegmentsAnalysed
    /\ \E d \in 1..Len(segment_definitions) :
          /\ Cardinality(Qualifying(result_df, segment_definitions[d])) = 19
          /\ ~Included(segment_definitions[d])
    /\ \E d \in 1..Len(segment_definitions) :
          /\ Cardinality(Qualifying(result_df, segment_definitions[d])) = 20
          /\ Included(segment_definitions[d])

---------------------------------------------------------------------------
(* C23 *)

\* _identify_drop_off_points has run on the frame and returned
DropOffsAnalysed ==
    /\ Len(report) >= 2
    /\ report[2].op = "_identify_drop_off_points"
    /\ report[2].ok

\* the stages of user u's events
StagesOf(df, u) ==
    {df[i].funnel_stage : i \in {j \in 1..Len(df) : df[j].userPseudoId = u}}

\* the users who did not reach CONVERSION
NonConverted(df) == {u \in UsersOf(df) : "CONVERSION" \notin StagesOf(df, u)}

\* the users all of whose events are UNKNOWN
OnlyUnknown(df) == {u \in UsersOf(df) : StagesOf(df, u) = {"UNKNOWN"}}

\* the non-converted users whose highest reached stage is `stage`
DroppedAt(df, stage) ==
    {u \in NonConverted(df) :
        CASE stage = "CONSIDERATION" -> "CONSIDERATION" \in StagesOf(df, u)
          [] stage = "INTEREST" ->
                 /\ "INTEREST" \in StagesOf(df, u)
                 /\ "CONSIDERATION" \notin StagesOf(df, u)
          [] stage = "AWARENESS" ->
                 /\ "AWARENESS" \in StagesOf(df, u)
                 /\ StagesOf(df, u) \cap {"INTEREST", "CONSIDERATION"} = {}}

\* every reported drop-off rate is the share of the stage's drop-offs among
\* the users `population`
DropOffRatesOver(population) ==
    \A k \in 1..Len(report[2].value) :
        LET point == report[2].value[k]
        IN /\ point.total_dropoffs
                 = Cardinality(DroppedAt(result_df, point.stage))
           /\ population # {}
           /\ IsPercent(point.dropoff_rate, point.total_dropoffs,
                        Cardinality(population))

---------------------------------------------------------------------------
(* C24 *)

\* both optimisation lists of the run have been computed
InsightsGenerated ==
    /\ Len(report) >= 2
    /\ report[2].op = "_generate_optimization_insights"

\* High before Medium before Low
PriorityRank(priority) ==
    CASE priority = "High" -> 1
      [] priority = "Medium" -> 2
      [] priority = "Low" -> 3

\* the position of record x in the sequence list
PositionIn(list, x) == CHOOSE i \in 1..Len(list) : list[i] = x

\* C24: top_opportunities holds at most 5 records, High before Medium before
\* Low, records of equal priority in insertion order (source, content,
\* journey, quick wins); the raw opportunity list of
\* _identify_optimization_opportunities holds at most 10 records
C24_TopOpportunitiesRanked ==
    InsightsGenerated =>
        LET insights == report[2].value
            top == insights.top_opportunities
            inserted == insights.source_optimization
                            \o insights.content_optimization
                            \o insights.journey_optimization
                            \o insights.quick_wins
        IN /\ Len(top) <= 5
           /\ Len(top) = min(5, Len(inserted))
           /\ \A i \in 1..Len(top) : \E j \in 1..Len(inserted) : top[i] = inserted[j]
           /\ \A i, j \in 1..Len(top) :
                 i < j =>
                     \/ PriorityRank(top[i].priority) < PriorityRank(top[j].priority)
                     \/ /\ top[i].priority = top[j].priority
                        /\ PositionIn(inserted, top[i]) < PositionIn(inserted, top[j])
           /\ Len(report[1].value) <= 10

\* all five insights are found, the High ones ahead of the two Medium ones
\* that were inserted before two of them, and the raw list is cut to the
\* first 10 of its 12 or 13 candidates
C24_Witness ==
    /\ InsightsGenerated
    /\ Len(report[2].value.top_opportunities) = 5
    /\ report[2].value.top_opportunities[2].type = "Target High-Value Segment"
    /\ report[2].value.top_opportunities[4].type = "Expand High-Converting Content"
    /\ report[2].value.top_opportunities[5].priority = "Medium"
    /\ Len(report[1].source_conversions) = 13
    /\ "step_conversions" \in DOMAIN report[1].stage_conversions
    /\ Len(report[1].value) = 10
    /\ report[1].value[1].type = "Funnel Bottleneck"

---------------------------------------------------------------------------
(* C25 *)

\* one of the two session-based analyses has returned its source aggregate
SourceAggregate ==
    IF ret = <<>> \/ ret[1].value = <<>> THEN <<>>
    ELSE IF call.fn = "analyze" THEN ret[1].value.conversion_summary
    ELSE ret[1].value.source_summary

\* how many rows of the aggregate carry the figures of the traffic row
TimesReported(aggregate, row) ==
    Cardinality({i \in 1..Len(aggregate) :
                    /\ aggregate[i].source = row.sessionSource
                    /\ aggregate[i].medium = row.sessionMedium
                    /\ aggregate[i].users = row.activeUsers
                    /\ aggregate[i].sessions = row.sessions
                    /\ aggregate[i].page_views = row.screenPageViews})

\* how many rows of the traffic report are equal to the row
TimesInReport(traffic_data, row) ==
    Cardinality({i \in 1..Len(traffic_data) : traffic_data[i] = row})

\* C25: in the session-based source aggregate every traffic row of the input
\* appears exactly once (as often as the report has it, and the aggregate
\* has no other row); a row with zero sessions is kept and reported with
\* conversion_rate 0.
C25_EveryTrafficRowOnce ==
    (ret # <<>> /\ call.fn \in {"analyze", "analyze_funnel"}
        /\ call.traffic_data # <<>>) =>
        /\ ret[1].ok
        /\ Len(SourceAggregate) = Len(call.traffic_data)
        /\ \A i \in 1..Len(call.traffic_data) :
               TimesReported(SourceAggregate, call.traffic_data[i])
                   = TimesInReport(call.traffic_data, call.traffic_data[i])
        /\ \A i \in 1..Len(SourceAggregate) :
               SourceAggregate[i].sessions = 0 =>
                   SourceAggregate[i].conversion_rate = 0

\* an aggregate with a row of no sessions for which the sign-up report has
\* a conversion, next to a row with sessions and conversions
C25_Witness ==
    /\ ret # <<>>
    /\ Len(SourceAggregate) = 2
    /\ \E i, j \in 1..2 :
           /\ SourceAggregate[i].sessions = 0
           /\ SourceAggregate[i].conversions > 0
           /\ SourceAggregate[i].conversion_rate = 0
           /\ SourceAggregate[j].sessions > 0
           /\ SourceAggregate[j].conversion_rate > 0

---------------------------------------------------------------------------
(* C26 *)

\* the journey as it would be had the user, from the event on, stayed on the
\* event's page: rows later than the event in timestamp order carry the
\* event's page path, so the distinct pages of the journey are those visited
\* up to and including the event
UpToEvent(event, context) ==
    [i \in 1..Len(context) |->
        IF context[i].eventTimestamp > event.eventTimestamp
        THEN [context[i] EXCEPT !.pagePath = event.pagePath]
        ELSE context[i]]

\* C26: the CONSIDERATION distinct-pages signal of an event counts only the
\* distinct page paths the user has visited up to and including that event in
\* timestamp order (+0.3 from three pages on, +0.2 more from five on): the
\* pages visited only after the event add nothing to its CONSIDERATION score
C26_DistinctPagesUpToEvent ==
    Classified =>
        LET timeline == Timeline
        IN \A p \in 1..Len(timeline) :
               _consideration_signals(timeline[p].event, timeline[p].context)
                   = _consideration_signals(
                         timeline[p].event,
                         UpToEvent(timeline[p].event, timeline[p].context))

---------------------------------------------------------------------------
(* C27 *)

\* the journey with its rows labelled in timestamp order: the row at position
\* i of the sorted journey has label i, so that one row's label is below
\* another's exactly when it precedes it in the user's timeline
LabelledByTimeline(context) ==
    [i \in 1..Len(context) |-> [context[i] EXCEPT !.name = i]]

\* C27: the 'earlier event' signals (INTEREST +0.2 for an earlier
\* session-start-class event, CONSIDERATION +0.3 for an earlier
\* engagement-class event, CONSIDERATION +0.2 for ordinal position >= 3) are
\* evaluated against the user's timeline: the INTEREST and CONSIDERATION
\* scores of every event are those it gets when 'earlier' is read as 'before
\* it in the user's timestamp-ascending order', whatever the row positions
\* in the input
C27_EarlierMeansEarlierInTimeline ==
    Classified =>
        LET timeline == Timeline
        IN \A p \in 1..Len(timeline) :
               LET context == timeline[p].context
                   i == CHOOSE k \in 1..Len(context) :
                            context[k].name = timeline[p].event.name
                   by_time == LabelledByTimeline(context)
               IN /\ _interest_signals(timeline[p].event, context)
                        = _interest_signals(by_time[i], by_time)
                  /\ _consideration_signals(timeline[p].event, context)
                        = _consideration_signals(by_time[i], by_time)

---------------------------------------------------------------------------
(* C28 *)

\* calculate_stage_conversions and calculate_source_conversions have both
\* returned for the classified frame
SourceConversionsReturned ==
    /\ Len(report) >= 2
    /\ report[1].ok
    /\ report[2].ok
    /\ result_df # <<>>

\* the (source, medium) pairs of the user's events
SourcesOf(df, user) ==
    {<<df[i].sessionSource, df[i].sessionMedium>> :
        i \in {j \in 1..Len(df) : df[j].userPseudoId = user}}

\* C28: in the output of calculate_source_conversions every distinct user of
\* the input is counted in exactly one (source, medium) row (the rows have
\* distinct keys, and the users can be assigned one row each, of a source
\* and medium of theirs, so that each row's total_users is the number of
\* users assigned to it); total_users >= 1 and 0 <= conversions <= total_users
\* in each row; the total_users sum to the number of distinct users and the
\* conversions to the CONVERSION reached-count of calculate_stage_conversions
C28_EachUserInOneSourceRow ==
    SourceConversionsReturned =>
        LET rows == report[2].value
            users == UsersOf(result_df)
        IN /\ \A k, l \in 1..Len(rows) :
                  (rows[k].source = rows[l].source /\ rows[k].medium = rows[l].medium)
                      => k = l
           /\ \E row_of \in [users -> 1..Len(rows)] :
                  /\ \A u \in users :
                         <<rows[row_of[u]].source, rows[row_of[u]].medium>>
                             \in SourcesOf(result_df, u)
                  /\ \A k \in 1..Len(rows) :
                         rows[k].total_users
                             = Cardinality({u \in users : row_of[u] = k})
           /\ \A k \in 1..Len(rows) :
                  /\ rows[k].total_users >= 1
                  /\ 0 <= rows[k].conversions
                  /\ rows[k].conversions <= rows[k].total_users
           /\ sum([k \in 1..Len(rows) |-> rows[k].total_users])
                  = Cardinality(users)
           /\ sum([k \in 1..Len(rows) |-> rows[k].conversions])
                  = report[1].value.stage_counts.conversion

\* source rows for several users, one of whom converted and one of whom came
\* from two different sources
C28_Witness ==
    /\ SourceConversionsReturned
    /\ Len(report[2].value) >= 2
    /\ Cardinality(UsersOf(result_df)) >= 2
    /\ report[1].value.stage_counts.conversion >= 1
    /\ \E u \in UsersOf(result_df) : Cardinality(SourcesOf(result_df, u)) >= 2
    /\ \E k \in 1..Len(report[2].value) :
           report[2].value[k].conversions < report[2].value[k].total_users

---------------------------------------------------------------------------
(* C29 *)

\* the event is one that may be labelled CONVERSION: it has the conversion
\* event name, or it is a page_view or user_engagement on the signup page
MayBeConversion(row) ==
    \/ row.eventName = conversion_event_name
    \/ /\ row.pagePath = <<"/","p","r","o","v","i","d","e","r","-","j","o","i","n">>
       /\ row.eventName \in {"page_view", "user_engagement"}

\* C29: classify_user_events assigns funnel_stage CONVERSION to an event only
\* if the event's name is the conversion event name, or its page path is the
\* signup page '/provider-join' and its name is page_view or user_engagement;
\* so a user with a CONVERSION event who never fired the conversion event has
\* such a signup-page event
C29_ConversionOnlyBySignupEvents ==
    Classified =>
        /\ \A p \in 1..Len(result_df) :
               result_df[p].funnel_stage = "CONVERSION"
                   => MayBeConversion(result_df[p])
        /\ \A u \in UsersOf(result_df) :
               (/\ \E p \in 1..Len(result_df) :
                       /\ result_df[p].userPseudoId = u
                       /\ result_df[p].funnel_stage = "CONVERSION"
                /\ \A p \in 1..Len(result_df) :
                       result_df[p].userPseudoId = u
                           => result_df[p].eventName # conversion_event_name)
                   => \E p \in 1..Len(result_df) :
                          /\ result_df[p].userPseudoId = u
                          /\ result_df[p].pagePath = <<"/","p","r","o","v","i","d","e","r","-","j","o","i","n">>
                          /\ result_df[p].eventName \in {"page_view", "user_engagement"}
                          /\ result_df[p].funnel_stage = "CONVERSION"

\* a page view of the signup page labelled CONVERSION, by a user who never
\* fired the conversion event
C29_Witness ==
    /\ Classified
    /\ \E p \in 1..Len(result_df) :
           /\ result_df[p].funnel_stage = "CONVERSION"
           /\ result_df[p].eventName = "page_view"
           /\ result_df[p].pagePath = <<"/","p","r","o","v","i","d","e","r","-","j","o","i","n">>
           /\ \A q \in 1..Len(result_df) :
                  result_df[q].userPseudoId = result_df[p].userPseudoId
                      => result_df[q].eventName # conversion_event_name

---------------------------------------------------------------------------
(* C30 *)

\* the path is matched by a pattern of the category 'support' of the default
\* table: '/p-posts/qna' or '/skill-guide/*'
MatchedBySupport(page_path) ==
    \/ page_path = <<"/","p","-","p","o","s","t","s","/","q","n","a">>
    \/ startswith(page_path, <<"/","s","k","i","l","l","-","g","u","i","d","e","/">>)

\* C30: with the default page-category table get_page_category never returns
\* 'support': every path matched by a 'support' pattern is matched first by a
\* pattern of the earlier category 'content'
C30_SupportNeverReturned ==
    (/\ call # <<>>
     /\ call.fn = "get_page_category"
     /\ call.table = page_categories
     /\ ret # <<>>) =>
        /\ ret[1] # "support"
        /\ MatchedBySupport(call.page_path) => ret[1] = "content"

\* the lookup of '/p-posts/qna', the exact pattern of 'support', in the
\* default table
C30_Witness ==
    /\ call # <<>>
    /\ call.fn = "get_page_category"
    /\ call.table = page_categories
    /\ call.page_path = <<"/","p","-","p","o","s","t","s","/","q","n","a">>
    /\ ret = <<"content">>

====
